---------------------------- MODULE Spec2Model ----------------------------
(***************************************************************************)
(* Model of massa-signature (signature_impl.rs): the versioned KeyPair,    *)
(* PublicKey and Signature, their binary and text encodings, scalar and    *)
(* batch verification.                                                     *)
(*                                                                         *)
(* Values:                                                                 *)
(*   KeyPair    [v, secret, public]   secret, public: 32 bytes             *)
(*   PublicKey  [v, pk]               pk: 32 bytes                         *)
(*   Signature  [v, sig]              sig: 64 bytes                        *)
(*   Result     [ok |-> TRUE, val] or [ok |-> FALSE, err, msg]             *)
(* Bytes are sequences over 0..255, text is a sequence of one-character    *)
(* strings.  The Ed25519 primitive, SHA-256 and the OS random source are   *)
(* outside the crate: Ed_* and Checksum below are deterministic stand-ins  *)
(* with the properties the crate relies on (see each definition).          *)
(***************************************************************************)
EXTENDS Integers, Sequences, FiniteSets, TLC

\* ------------------------------------------------------------------ bounds
\* secrets the random source may return: SecretOf(0..MaxSeed)
MaxSeed == 1
\* hashes that are signed and verified: HashOf(0..MaxHash)
MaxHash == 1
\* versions asked of generate: 0..MaxVersion (2 and above do not exist)
MaxVersion == 2
\* longest batch handed to verify_signature_batch
MaxBatch == 2
\* longest run of trailing bytes appended to a serialized value
MaxGarbage == 2

\* ------------------------------------------------------- program constants
VERSION_VARINT_SIZE_BYTES == 1
SECRET_KEY_BYTES_SIZE == 32
PUBLIC_KEY_SIZE_BYTES == 32
SIGNATURE_SIZE_BYTES == 64
SECRET_PREFIX == "S"
PUBLIC_PREFIX == "P"

\* ------------------------------------------------------------------ helpers
Take(s, n) == SubSeq(s, 1, n)
Drop(s, n) == SubSeq(s, n + 1, Len(s))

Ok(x) == [ok |-> TRUE, val |-> x]
ParsingError(m) == [ok |-> FALSE, err |-> "ParsingError", msg |-> m]
InvalidVersionError(m) == [ok |-> FALSE, err |-> "InvalidVersionError", msg |-> m]
SignatureError(m) == [ok |-> FALSE, err |-> "SignatureError", msg |-> m]
Unit == [unit |-> TRUE]

\* y, once x has a value: TLC passes arguments unevaluated, and a fold that
\* hands each step the suspended result of the one before is evaluated as
\* one nested chain as long as the input.
Strict(x, y) == IF x = x THEN y ELSE y

\* std::cmp::Ordering of two byte vectors (Vec<u8>::cmp): lexicographic, a
\* proper prefix is Less.
LexCmp(a, b) ==
    LET n == IF Len(a) < Len(b) THEN Len(a) ELSE Len(b)
        diff == {i \in 1..n : a[i] # b[i]}
    IN  IF diff = {}
        THEN IF Len(a) < Len(b) THEN "Less"
             ELSE IF Len(a) > Len(b) THEN "Greater" ELSE "Equal"
        ELSE LET i == CHOOSE i \in diff : \A j \in diff : i <= j
             IN  IF a[i] < b[i] THEN "Less" ELSE "Greater"

\* ------------------------------------------------------- external: Ed25519
\* 32 bytes the OS random source returns for a secret key.
SecretOf(seed) == [i \in 1..32 |-> (seed * 37 + i * 11) % 256]

\* A 32-byte hash (massa_hash::Hash::to_bytes).
HashOf(t) == [i \in 1..32 |-> (t * 101 + i * 3) % 256]

\* ed25519_dalek::PublicKey::from_bytes rejects encodings that are not a
\* curve point; the stand-in rejects a last byte of 255.
Ed_IsPoint(b) == b[32] # 255

\* ed25519_dalek::PublicKey::from(&secret): deterministic, injective on the
\* secrets used, and always a point.
Ed_derive(sk) ==
    [i \in 1..32 |-> LET y == (sk[i] * 5 + 17) % 256
                     IN  IF i = 32 /\ y = 255 THEN 254 ELSE y]

\* ed25519_dalek::Signature::from_bytes rejects a last byte with any of its
\* three high bits set.
Ed_IsSignature(s) == s[64] < 32

\* The one signature that verifies for public key pk and message msg.
Ed_expected(pk, msg) ==
    [i \in 1..64 |->
        IF i <= 32 THEN (pk[i] + msg[i] * 3 + 1) % 256
        ELSE IF i < 64 THEN (pk[i - 32] * 7 + msg[i - 32]) % 256
        ELSE (pk[32] * 7 + msg[32]) % 32]

\* Keypair::sign: deterministic; the key it answers to is the one derived
\* from the secret.
Ed_sign(secret, public, msg) ==
    LET e == Ed_expected(Ed_derive(secret), msg)
    IN  [i \in 1..64 |-> IF i <= 32 THEN (public[i] + msg[i] * 3 + 1) % 256 ELSE e[i]]

\* PublicKey::verify
Ed_verify(pk, msg, sig) == sig = Ed_expected(pk, msg)

\* ed25519_dalek::verify_batch over parallel arrays: succeeds exactly when
\* every signature verifies.
Ed_verify_batch(msgs, sigs, pks) ==
    \A i \in 1..Len(msgs) : Ed_verify(pks[i], msgs[i], sigs[i])


\* ------------------------------------------- massa_serialization: u64 varint
\* U64VarIntSerializer::serialize: base-128 groups, least significant
\* first, high bit set on every byte but the last.
RECURSIVE VarIntSerialize(_)
VarIntSerialize(n) ==
    IF n < 128 THEN <<n>>
    ELSE <<128 + (n % 128)>> \o VarIntSerialize(n \div 128)

\* U64VarIntDeserializer::deserialize over [0, u64::MAX]: the value and the
\* unread suffix, or an error when the input ends before the last group.
\* The varint library under it also refuses an encoding that is not the
\* shortest one (a last group of zero after the first byte) and one of more
\* than ten bytes.
RECURSIVE VarIntFrom(_, _, _, _)
VarIntFrom(data, i, mult, acc) ==
    IF i > Len(data) \/ i > 10 THEN [ok |-> FALSE]
    ELSE IF data[i] < 128
         THEN IF data[i] = 0 /\ i > 1 THEN [ok |-> FALSE]
              ELSE [ok |-> TRUE, value |-> acc + data[i] * mult, rest |-> Drop(data, i)]
         ELSE VarIntFrom(data, i + 1, mult * 128, acc + (data[i] - 128) * mult)

VarIntDeserialize(data) == VarIntFrom(data, 1, 1, 0)

\* --------------------------------------------------- KeyPair, per version
\* Variant: the public key bytes follow the secret.
KeyPairV_to_bytes_WithPublic(v, k) == VarIntSerialize(v) \o k.secret \o k.public

\* KeyPairV*::to_bytes: varint(VERSION) then the 32 secret bytes.
KeyPairV_to_bytes(v, k) == VarIntSerialize(v) \o k.secret

KeyPairV_get_ser_len(v, k) == VERSION_VARINT_SIZE_BYTES + SECRET_KEY_BYTES_SIZE

\* Variant: data shorter than the secret is filled up with zero bytes.
KeyPairV_from_bytes_PadShort(v, data) ==
    LET secret == [i \in 1..SECRET_KEY_BYTES_SIZE |-> IF i <= Len(data) THEN data[i] ELSE 0]
    IN  Ok([v |-> v, secret |-> secret, public |-> Ed_derive(secret)])

\* KeyPairV*::from_bytes: at least 32 bytes, the first 32 are the secret and
\* the public key is derived from it.
KeyPairV_from_bytes(v, data) ==
    IF Len(data) < SECRET_KEY_BYTES_SIZE
    THEN ParsingError(<<"keypair byte array is of invalid size">>)
    ELSE LET secret == Take(data, SECRET_KEY_BYTES_SIZE)
         IN  Ok([v |-> v, secret |-> secret, public |-> Ed_derive(secret)])

\* KeyPairV*::generate: a fresh secret from the OS random source.
KeyPairV_generate(v, secret) ==
    [v |-> v, secret |-> secret, public |-> Ed_derive(secret)]

\* KeyPairV*::sign
KeyPairV_sign(v, k, hash) == Ok([v |-> v, sig |-> Ed_sign(k.secret, k.public, hash)])

\* KeyPairV*::get_public_key
KeyPairV_get_public_key(v, k) == [v |-> v, pk |-> k.public]

\* impl Clone for KeyPairV*
KeyPairV_clone(k) == [v |-> k.v, secret |-> k.secret, public |-> k.public]

\* ------------------------------------------------- PublicKey, per version
PublicKeyV_to_bytes(v, p) == VarIntSerialize(v) \o p.pk

PublicKeyV_get_ser_len(v, p) == VERSION_VARINT_SIZE_BYTES + PUBLIC_KEY_SIZE_BYTES

PublicKeyV_from_bytes(v, data) ==
    IF Len(data) < PUBLIC_KEY_SIZE_BYTES
    THEN ParsingError(<<"public key byte array is of invalid size">>)
    ELSE LET b == Take(data, PUBLIC_KEY_SIZE_BYTES)
         IN  IF Ed_IsPoint(b) THEN Ok([v |-> v, pk |-> b])
             ELSE ParsingError(<<"ed25519 public key error">>)

\* Variant: accepts any well-formed signature, whatever the hash.
PublicKeyV_verify_signature_AnyHash(p, hash, s) ==
    IF Ed_IsSignature(s.sig) THEN Ok(Unit)
    ELSE SignatureError(<<"Signature verification failed: ">>)

\* PublicKeyV*::verify_signature: the raw Ed25519 check of this key, the 32
\* hash bytes and the raw signature.
PublicKeyV_verify_signature(p, hash, s) ==
    IF Ed_verify(p.pk, hash, s.sig) THEN Ok(Unit)
    ELSE SignatureError(<<"Signature verification failed: ">>)

\* impl Ord for PublicKeyV*: the raw 32 bytes.
PublicKeyV_cmp(a, b) == LexCmp(a.pk, b.pk)

\* ------------------------------------------------- Signature, per version
SignatureV_to_bytes(v, s) == VarIntSerialize(v) \o s.sig

SignatureV_get_ser_len(v, s) == VERSION_VARINT_SIZE_BYTES + SIGNATURE_SIZE_BYTES

\* Variant: the data must be the 64 bytes and nothing more.
SignatureV_from_bytes_ExactLen(v, data) ==
    IF Len(data) # SIGNATURE_SIZE_BYTES
    THEN ParsingError(<<"signature byte array is of invalid size">>)
    ELSE IF Ed_IsSignature(data) THEN Ok([v |-> v, sig |-> data])
         ELSE ParsingError(<<"signature bytes parsing error: ">>)

SignatureV_from_bytes(v, data) ==
    IF Len(data) < SIGNATURE_SIZE_BYTES
    THEN ParsingError(<<"signature byte array is of invalid size">>)
    ELSE LET b == Take(data, SIGNATURE_SIZE_BYTES)
         IN  IF Ed_IsSignature(b) THEN Ok([v |-> v, sig |-> b])
             ELSE ParsingError(<<"signature bytes parsing error: ">>)

\* ------------------------------------------------------ versioned KeyPair
KeyPair_get_version(k) == k.v

\* KeyPair::generate
KeyPair_generate(version, secret) ==
    IF version = 0 THEN Ok(KeyPairV_generate(0, secret))
    ELSE IF version = 1 THEN Ok(KeyPairV_generate(1, secret))
    ELSE InvalidVersionError(<<"KeyPair version doesn't exist.">>)

\* Variant: every key pair signs as version 0.
KeyPair_sign_AlwaysV0(k, hash) == KeyPairV_sign(0, k, hash)

\* KeyPair::sign
KeyPair_sign(k, hash) ==
    IF k.v = 0 THEN KeyPairV_sign(0, k, hash) ELSE KeyPairV_sign(1, k, hash)

KeyPair_get_ser_len(k) ==
    IF k.v = 0 THEN KeyPairV_get_ser_len(0, k) ELSE KeyPairV_get_ser_len(1, k)

KeyPair_to_bytes(k) ==
    IF k.v = 0 THEN KeyPairV_to_bytes(0, k) ELSE KeyPairV_to_bytes(1, k)

\* Variant: the public key is always a version-0 key.
KeyPair_get_public_key_AlwaysV0(k) == KeyPairV_get_public_key(0, k)

\* KeyPair::get_public_key
KeyPair_get_public_key(k) ==
    IF k.v = 0 THEN KeyPairV_get_public_key(0, k) ELSE KeyPairV_get_public_key(1, k)

\* KeyPair::from_bytes: the version varint, then that version's decoder on
\* the rest.
KeyPair_from_bytes(data) ==
    LET d == VarIntDeserialize(data)
    IN  IF ~d.ok THEN ParsingError(<<"varint">>)
        ELSE IF d.value = 0 THEN KeyPairV_from_bytes(0, d.rest)
        ELSE IF d.value = 1 THEN KeyPairV_from_bytes(1, d.rest)
        ELSE InvalidVersionError(<<"Unknown keypair version: ">>)

\* impl Clone for KeyPair
KeyPair_clone(k) == KeyPairV_clone(k)

\* ---------------------------------------------------- versioned PublicKey
PublicKey_to_bytes(p) ==
    IF p.v = 0 THEN PublicKeyV_to_bytes(0, p) ELSE PublicKeyV_to_bytes(1, p)

PublicKey_get_ser_len(p) ==
    IF p.v = 0 THEN PublicKeyV_get_ser_len(0, p) ELSE PublicKeyV_get_ser_len(1, p)

\* Variant: the version read selects the other version's decoder.
PublicKey_from_bytes_SwappedArms(data) ==
    LET d == VarIntDeserialize(data)
    IN  IF ~d.ok THEN ParsingError(<<"varint">>)
        ELSE IF d.value = 0 THEN PublicKeyV_from_bytes(1, d.rest)
        ELSE IF d.value = 1 THEN PublicKeyV_from_bytes(0, d.rest)
        ELSE InvalidVersionError(<<"Unknown PublicKey version: ">>)

PublicKey_from_bytes(data) ==
    LET d == VarIntDeserialize(data)
    IN  IF ~d.ok THEN ParsingError(<<"varint">>)
        ELSE IF d.value = 0 THEN PublicKeyV_from_bytes(0, d.rest)
        ELSE IF d.value = 1 THEN PublicKeyV_from_bytes(1, d.rest)
        ELSE InvalidVersionError(<<"Unknown PublicKey version: ">>)

\* Variant: the versions are not compared.
PublicKey_verify_signature_NoVersionCheck(p, hash, s) ==
    PublicKeyV_verify_signature(p, hash, s)

\* PublicKey::verify_signature: both V0 or both V1, anything else is a
\* version error.
PublicKey_verify_signature(p, hash, s) ==
    IF p.v = 0 /\ s.v = 0 THEN PublicKeyV_verify_signature(p, hash, s)
    ELSE IF p.v = 1 /\ s.v = 1 THEN PublicKeyV_verify_signature(p, hash, s)
    ELSE InvalidVersionError(<<"The PublicKey and Signature versions do not match">>)

\* Variant: the order of the two payloads, the version left out.
PublicKey_cmp_PayloadOnly(a, b) == LexCmp(a.pk, b.pk)

\* impl Ord for PublicKey: the order of the two to_bytes() vectors.
PublicKey_cmp(a, b) == LexCmp(PublicKey_to_bytes(a), PublicKey_to_bytes(b))

\* Variant: the order of the keys alone, the version left out.
PublicKey_partial_cmp_PayloadOnly(a, b) == LexCmp(a.pk, b.pk)

\* impl PartialOrd for PublicKey
PublicKey_partial_cmp(a, b) == LexCmp(PublicKey_to_bytes(a), PublicKey_to_bytes(b))

\* Variant: the keys alone are compared, the variant is not.
PublicKey_eq_PayloadOnly(a, b) == a.pk = b.pk

\* derive(PartialEq, Eq) on the versioned enum: same variant, same key.
PublicKey_eq(a, b) == a.v = b.v /\ a.pk = b.pk

\* ---------------------------------------------------- versioned Signature
Signature_to_bytes(s) ==
    IF s.v = 0 THEN SignatureV_to_bytes(0, s) ELSE SignatureV_to_bytes(1, s)

Signature_get_ser_len(s) ==
    IF s.v = 0 THEN SignatureV_get_ser_len(0, s) ELSE SignatureV_get_ser_len(1, s)

\* Variant: the length of what follows the version is checked first.
Signature_from_bytes_LengthFirst(data) ==
    LET d == VarIntDeserialize(data)
    IN  IF ~d.ok THEN ParsingError(<<"varint">>)
        ELSE IF Len(d.rest) < SIGNATURE_SIZE_BYTES
             THEN ParsingError(<<"signature byte array is of invalid size">>)
        ELSE IF d.value = 0 THEN SignatureV_from_bytes(0, d.rest)
        ELSE IF d.value = 1 THEN SignatureV_from_bytes(1, d.rest)
        ELSE InvalidVersionError(<<"Unknown signature version: ">>)

\* Signature::from_bytes
Signature_from_bytes(data) ==
    LET d == VarIntDeserialize(data)
    IN  IF ~d.ok THEN ParsingError(<<"varint">>)
        ELSE IF d.value = 0 THEN SignatureV_from_bytes(0, d.rest)
        ELSE IF d.value = 1 THEN SignatureV_from_bytes(1, d.rest)
        ELSE InvalidVersionError(<<"Unknown signature version: ">>)

\* derive(PartialEq, Eq) on the versioned enum.
Signature_eq(a, b) == a.v = b.v /\ a.sig = b.sig

\* ------------------------------------------------------ batch verification
\* Variant: the loop collects the items without comparing versions.
BatchLoop_NoVersionCheck(batch, i) ==
    IF Ed_verify_batch([j \in 1..Len(batch) |-> batch[j].hash],
                       [j \in 1..Len(batch) |-> batch[j].sig.sig],
                       [j \in 1..Len(batch) |-> batch[j].pk.pk])
    THEN Ok(Unit)
    ELSE SignatureError(<<"Batch signature verification failed: ">>)

\* Variant: every item must have the version of the first item.
BatchLoop_SameAsFirst(batch, i) ==
    IF \E j \in 1..Len(batch) :
          \/ batch[j].sig.v # batch[1].sig.v
          \/ batch[j].pk.v # batch[1].sig.v
    THEN InvalidVersionError(<<"Batch contains unsupported or incompatible versions">>)
    ELSE BatchLoop_NoVersionCheck(batch, i)

\* Variant: the signatures are verified before the versions are compared.
BatchLoop_VerifyFirst(batch, i) ==
    IF ~BatchLoop_NoVersionCheck(batch, i).ok
    THEN SignatureError(<<"Batch signature verification failed: ">>)
    ELSE IF \E j \in 1..Len(batch) : batch[j].sig.v # batch[j].pk.v
         THEN InvalidVersionError(<<"Batch contains unsupported or incompatible versions">>)
         ELSE Ok(Unit)

\* The loop of verify_signature_batch over items i..: the first item whose
\* signature and key are not both V0 or both V1 ends it with a version
\* error; otherwise one Ed25519 batch over all raw triples.
RECURSIVE BatchLoop(_, _)
BatchLoop(batch, i) ==
    IF i > Len(batch)
    THEN IF Ed_verify_batch([j \in 1..Len(batch) |-> batch[j].hash],
                            [j \in 1..Len(batch) |-> batch[j].sig.sig],
                            [j \in 1..Len(batch) |-> batch[j].pk.pk])
         THEN Ok(Unit)
         ELSE SignatureError(<<"Batch signature verification failed: ">>)
    ELSE IF batch[i].sig.v = batch[i].pk.v /\ batch[i].sig.v \in {0, 1}
         THEN BatchLoop(batch, i + 1)
         ELSE InvalidVersionError(<<"Batch contains unsupported or incompatible versions">>)

\* verify_signature_batch: batch is a sequence of [hash, sig, pk].
verify_signature_batch(batch) ==
    IF Len(batch) = 0 THEN Ok(Unit)
    ELSE IF Len(batch) = 1
         THEN PublicKey_verify_signature(batch[1].pk, batch[1].hash, batch[1].sig)
         ELSE BatchLoop(batch, 1)

\* ------------------------------------------------- external: bs58 with check
\* The Bitcoin alphabet; a character's digit is its index minus one.
Alphabet ==
    << "1", "2", "3", "4", "5", "6", "7", "8", "9",
       "A", "B", "C", "D", "E", "F", "G", "H", "J", "K", "L", "M", "N", "P", "Q",
       "R", "S", "T", "U", "V", "W", "X", "Y", "Z",
       "a", "b", "c", "d", "e", "f", "g", "h", "i", "j", "k", "m", "n", "o", "p",
       "q", "r", "s", "t", "u", "v", "w", "x", "y", "z" >>

IsB58Char(c) == \E d \in 1..Len(Alphabet) : Alphabet[d] = c
B58Digit(c) == (CHOOSE d \in 1..Len(Alphabet) : Alphabet[d] = c) - 1

\* Number of leading elements of s equal to x.
Leading(s, x) ==
    LET other == {i \in 1..Len(s) : s[i] # x}
    IN  IF other = {} THEN Len(s)
        ELSE (CHOOSE i \in other : \A j \in other : i <= j) - 1

\* The 4 check bytes of with_check(): a stand-in for the first four bytes of
\* SHA-256(SHA-256(data)); two running sums over every byte and its
\* position (the sums of data[lo..hi], halves first).
RECURSIVE ChecksumSums(_, _, _)
ChecksumSums(data, lo, hi) ==
    IF lo > hi THEN << 0, 0 >>
    ELSE IF lo = hi THEN << data[lo] % 65521, (data[lo] * (Len(data) - lo + 1)) % 65521 >>
    ELSE LET mid == (lo + hi) \div 2
             l == ChecksumSums(data, lo, mid)
             r == ChecksumSums(data, mid + 1, hi)
         IN  << (l[1] + r[1]) % 65521, (l[2] + r[2]) % 65521 >>

Checksum(data) ==
    LET c == ChecksumSums(data, 1, Len(data))
        a == (1 + c[1]) % 65521
        b == (Len(data) + c[2]) % 65521
    IN  << a \div 256, a % 256, b \div 256, b % 256 >>

\* A big-endian byte string without leading zeros as 16-bit limbs (two
\* bytes each, most significant first).
Limbs(bytes) ==
    LET p == IF Len(bytes) % 2 = 1 THEN << 0 >> \o bytes ELSE bytes
    IN  [i \in 1..(Len(p) \div 2) |-> p[2 * i - 1] * 256 + p[2 * i]]

\* The bytes of a limb string whose first limb is not zero, without a
\* leading zero byte.
Unlimbs(num) ==
    LET b == [i \in 1..(2 * Len(num)) |->
                 IF i % 2 = 1 THEN num[(i + 1) \div 2] \div 256
                 ELSE num[i \div 2] % 256]
    IN  IF Len(num) > 0 /\ num[1] < 256 THEN Drop(b, 1) ELSE b

\* One limb of a long division by 58: st is the quotient so far (without
\* leading zero limbs) and the running remainder.
DivStep(st, limb) ==
    LET cur == st[2] * 65536 + limb
    IN  << IF st[1] = << >> /\ cur \div 58 = 0 THEN << >>
           ELSE Append(st[1], cur \div 58),
           cur % 58 >>

\* Limbs lo..hi of the division, most significant first.
RECURSIVE DivRange(_, _, _, _)
DivRange(num, st, lo, hi) ==
    IF lo > hi THEN st
    ELSE IF lo = hi THEN DivStep(st, num[lo])
    ELSE LET mid == (lo + hi) \div 2
             left == DivRange(num, st, lo, mid)
         IN  Strict(left, DivRange(num, left, mid + 1, hi))

\* num divided by 58: quotient and remainder.
DivMod58(num) == DivRange(num, << << >>, 0 >>, 1, Len(num))

\* One digit: st is the number left and the digits found so far.
DigitStep(st) ==
    IF st[1] = << >> THEN st
    ELSE LET dm == DivMod58(st[1])
         IN  << dm[1], << Alphabet[dm[2] + 1] >> \o st[2] >>

\* k digit steps.
RECURSIVE DigitSteps(_, _)
DigitSteps(st, k) ==
    IF k = 0 THEN st
    ELSE IF k = 1 THEN DigitStep(st)
    ELSE LET first == DigitSteps(st, k \div 2)
         IN  Strict(first, DigitSteps(first, k - (k \div 2)))

\* The base-58 digits of a limb string, most significant first (a limb is
\* less than three digits).
B58Digits(num) == DigitSteps(<< num, << >> >>, 3 * Len(num))[2]

\* bs58::encode(bytes).into_string(): one "1" per leading zero byte, then
\* the base-58 digits of the rest.
Base58Encode(bytes) ==
    LET z == Leading(bytes, 0)
    IN  [i \in 1..z |-> "1"] \o B58Digits(Limbs(Drop(bytes, z)))

\* One limb of num * 58 + d, from the last limb: st is the carry and the
\* limbs written so far.
MulStep(st, limb) ==
    LET cur == limb * 58 + st[1]
    IN  << cur \div 65536, << cur % 65536 >> \o st[2] >>

\* Limbs lo..hi of the product, least significant first.
RECURSIVE MulRange(_, _, _, _)
MulRange(num, st, lo, hi) ==
    IF lo > hi THEN st
    ELSE IF lo = hi THEN MulStep(st, num[lo])
    ELSE LET mid == (lo + hi) \div 2
             low == MulRange(num, st, mid + 1, hi)
         IN  Strict(low, MulRange(num, low, lo, mid))

\* num * 58 + d as a limb string without leading zero limbs.
MulAdd58(num, d) ==
    LET r == MulRange(num, << d, << >> >>, 1, Len(num))
    IN  IF r[1] = 0 THEN r[2] ELSE << r[1] >> \o r[2]

\* The number num followed by the digits text[lo..hi].
RECURSIVE B58Number(_, _, _, _)
B58Number(text, num, lo, hi) ==
    IF lo > hi THEN num
    ELSE IF lo = hi THEN MulAdd58(num, B58Digit(text[lo]))
    ELSE LET mid == (lo + hi) \div 2
             left == B58Number(text, num, lo, mid)
         IN  Strict(left, B58Number(text, left, mid + 1, hi))

\* bs58::decode(text).into_vec(): fails on a character outside the alphabet.
Base58Decode(text) ==
    IF \E i \in 1..Len(text) : ~IsB58Char(text[i]) THEN [ok |-> FALSE]
    ELSE LET z == Leading(text, "1")
         IN  [ok |-> TRUE,
              bytes |-> [i \in 1..z |-> 0]
                        \o Unlimbs(B58Number(text, << >>, z + 1, Len(text)))]

\* bs58::encode(bytes).with_check().into_string()
Bs58CheckEncode(bytes) == Base58Encode(bytes \o Checksum(bytes))

\* bs58::decode(text).with_check(None).into_vec(): the payload without its
\* 4 check bytes, or a failure (alphabet, too short, wrong checksum).
Bs58CheckDecode(text) ==
    LET d == Base58Decode(text)
    IN  IF ~d.ok THEN [ok |-> FALSE]
        ELSE IF Len(d.bytes) < 4 THEN [ok |-> FALSE]
        ELSE LET body == Take(d.bytes, Len(d.bytes) - 4)
             IN  IF Drop(d.bytes, Len(d.bytes) - 4) = Checksum(body)
                 THEN [ok |-> TRUE, bytes |-> body]
                 ELSE [ok |-> FALSE]

\* ----------------------------------------------------------- text encodings
\* impl Display for KeyPairV*: 'S' then base58check(to_bytes()).
KeyPair_to_string(k) == << SECRET_PREFIX >> \o Bs58CheckEncode(KeyPair_to_bytes(k))

\* Variant: the prefix expected is the public key's.
KeyPair_from_str_PublicPrefix(s) ==
    IF Len(s) > 0 /\ s[1] = PUBLIC_PREFIX
    THEN LET d == Bs58CheckDecode(Drop(s, 1))
         IN  IF ~d.ok THEN ParsingError(<< "bad secret key bs58: " >> \o s)
             ELSE KeyPair_from_bytes(d.bytes)
    ELSE ParsingError(<< "bad secret prefix for: " >> \o s)

\* impl FromStr for KeyPair; both errors quote the whole input s.
KeyPair_from_str(s) ==
    IF Len(s) > 0 /\ s[1] = SECRET_PREFIX
    THEN LET d == Bs58CheckDecode(Drop(s, 1))
         IN  IF ~d.ok THEN ParsingError(<< "bad secret key bs58: " >> \o s)
             ELSE KeyPair_from_bytes(d.bytes)
    ELSE ParsingError(<< "bad secret prefix for: " >> \o s)

\* impl Display for PublicKeyV*: 'P' then base58check(to_bytes()).
PublicKey_to_string(p) == << PUBLIC_PREFIX >> \o Bs58CheckEncode(PublicKey_to_bytes(p))

\* Variant: the first character is dropped without being looked at.
PublicKey_from_str_AnyPrefix(s) ==
    IF Len(s) > 0
    THEN LET d == Bs58CheckDecode(Drop(s, 1))
         IN  IF ~d.ok THEN ParsingError(<< "Bad public key bs58" >>)
             ELSE PublicKey_from_bytes(d.bytes)
    ELSE ParsingError(<< "Bad public key prefix" >>)

\* impl FromStr for PublicKey
PublicKey_from_str(s) ==
    IF Len(s) > 0 /\ s[1] = PUBLIC_PREFIX
    THEN LET d == Bs58CheckDecode(Drop(s, 1))
         IN  IF ~d.ok THEN ParsingError(<< "Bad public key bs58" >>)
             ELSE PublicKey_from_bytes(d.bytes)
    ELSE ParsingError(<< "Bad public key prefix" >>)

\* Signature::to_bs58_check
Signature_to_bs58_check(s) == Bs58CheckEncode(Signature_to_bytes(s))

\* impl Display for Signature
Signature_to_string(s) == Signature_to_bs58_check(s)

\* Signature::from_bs58_check
Signature_from_bs58_check(text) ==
    LET d == Bs58CheckDecode(text)
    IN  IF ~d.ok THEN ParsingError(<< "signature bs58_check parsing error: " >>)
        ELSE Signature_from_bytes(d.bytes)

\* impl FromStr for Signature: no prefix, the whole string is decoded.
Signature_from_str(s) ==
    LET d == Bs58CheckDecode(s)
    IN  IF ~d.ok THEN ParsingError(<< "bad signature bs58: " >> \o s)
        ELSE Signature_from_bytes(d.bytes)

\* ------------------------------------------------------- hashing of keys
\* impl Hash for PublicKeyV*: what self.0.to_bytes().hash(state) writes to
\* the hasher, the length of the array and its bytes.
PublicKeyV_hash(p) == <<Len(p.pk)>> \o p.pk

\* Variant: the enum's discriminant is written first, as a derived Hash does.
PublicKey_hash_WithDiscriminant(p) == <<p.v>> \o PublicKeyV_hash(p)

\* impl Hash for PublicKey: the inner key's hash, for either version.
PublicKey_hash(p) ==
    IF p.v = 0 THEN PublicKeyV_hash(p) ELSE PublicKeyV_hash(p)

\* ------------------------------------------------ BTreeSet of public keys
\* Variant: the set's order is the payload first, then the version.
BTreeSet_insert_PayloadFirst(set, x) ==
    LET key(p) == p.pk \o <<p.v>>
        below == {i \in 1..Len(set) : LexCmp(key(set[i]), key(x)) = "Less"}
        equal == {i \in 1..Len(set) : LexCmp(key(set[i]), key(x)) = "Equal"}
        n == Cardinality(below)
    IN  IF equal # {} THEN set
        ELSE Take(set, n) \o <<x>> \o Drop(set, n)

\* BTreeSet<PublicKey>::insert: the set is the ascending sequence of its
\* elements under Ord; an element that compares Equal to x keeps its place
\* and x is dropped.
BTreeSet_insert(set, x) ==
    LET below == {i \in 1..Len(set) : PublicKey_cmp(set[i], x) = "Less"}
        equal == {i \in 1..Len(set) : PublicKey_cmp(set[i], x) = "Equal"}
        n == Cardinality(below)
    IN  IF equal # {} THEN set
        ELSE Take(set, n) \o <<x>> \o Drop(set, n)

\* BTreeSet::extend: the keys inserted one after the other.
RECURSIVE BTreeSet_extend(_, _)
BTreeSet_extend(set, keys) ==
    IF keys = << >> THEN set
    ELSE BTreeSet_extend(BTreeSet_insert(set, Head(keys)), Tail(keys))

\* BTreeSet::first
BTreeSet_first(set) == IF set = << >> THEN [some |-> FALSE] ELSE [some |-> TRUE, val |-> set[1]]

\* HashSet<PublicKey>::insert: x is dropped when the set holds a key with
\* the hash of x that is equal (==) to x.
HashSet_insert(set, x) ==
    IF \E y \in set : PublicKey_hash(y) = PublicKey_hash(x) /\ PublicKey_eq(y, x)
    THEN set
    ELSE set \cup {x}

\* HashSet::extend: the keys inserted one after the other.
RECURSIVE HashSet_extend(_, _)
HashSet_extend(set, keys) ==
    IF keys = << >> THEN set
    ELSE HashSet_extend(HashSet_insert(set, Head(keys)), Tail(keys))

\* ------------------------------------------------- streaming deserializers
\* The one error of the parser framework: nom::Err::Error(.. ErrorKind::Fail)
\* on the whole buffer.
NomFail(buffer) == [ok |-> FALSE, err |-> "NomErrorFail", input |-> buffer]

\* A slice &buffer[n..]: a panic when n is past the end.
SliceFrom(buffer, n) ==
    IF n > Len(buffer) THEN [panic |-> TRUE] ELSE [panic |-> FALSE, bytes |-> Drop(buffer, n)]

\* Variant: rest starts after the payload alone, the version byte not counted.
PublicKeyDeserializer_deserialize_PayloadLen(buffer) ==
    LET r == PublicKey_from_bytes(buffer)
    IN  IF ~r.ok THEN NomFail(buffer)
        ELSE LET rest == SliceFrom(buffer, PUBLIC_KEY_SIZE_BYTES)
             IN  IF rest.panic THEN [ok |-> FALSE, err |-> "panic"]
                 ELSE [ok |-> TRUE, val |-> r.val, rest |-> rest.bytes]

\* PublicKeyDeserializer::deserialize
PublicKeyDeserializer_deserialize(buffer) ==
    LET r == PublicKey_from_bytes(buffer)
    IN  IF ~r.ok THEN NomFail(buffer)
        ELSE LET rest == SliceFrom(buffer, PublicKey_get_ser_len(r.val))
             IN  IF rest.panic THEN [ok |-> FALSE, err |-> "panic"]
                 ELSE [ok |-> TRUE, val |-> r.val, rest |-> rest.bytes]

\* SignatureDeserializer::deserialize
SignatureDeserializer_deserialize(buffer) ==
    LET r == Signature_from_bytes(buffer)
    IN  IF ~r.ok THEN NomFail(buffer)
        ELSE LET rest == SliceFrom(buffer, Signature_get_ser_len(r.val))
             IN  IF rest.panic THEN [ok |-> FALSE, err |-> "panic"]
                 ELSE [ok |-> TRUE, val |-> r.val, rest |-> rest.bytes]

\* ------------------------------------------- structured decoding of KeyPair
\* Variant: the key pair takes the public key of the public_key field.
KeyPair_visit_FieldPublic(secret, public) ==
    LET k == KeyPair_from_str(secret)
        q == PublicKey_from_str(public)
    IN  IF ~k.ok THEN [ok |-> FALSE, err |-> "SerdeCustom", msg |-> k.msg]
        ELSE IF ~q.ok THEN [ok |-> FALSE, err |-> "SerdeCustom", msg |-> q.msg]
        ELSE Ok([k.val EXCEPT !.public = q.val.pk])

\* KeyPairVisitor::visit_seq and visit_map with both fields present: the
\* public_key string is read and dropped, the key pair is
\* KeyPair::from_str(secret_key), its error made a serde custom error.
KeyPair_visit(secret, public) ==
    LET k == KeyPair_from_str(secret)
    IN  IF ~k.ok THEN [ok |-> FALSE, err |-> "SerdeCustom", msg |-> k.msg]
        ELSE k

\* ------------------------------------------------------ serde data model
\* The values a serde format hands over: a string, a byte string, a map of
\* named entries, a sequence, and a value that is none of these.
Str(t) == [type |-> "str", text |-> t]
Bytes(b) == [type |-> "bytes", bytes |-> b]
Map(entries) == [type |-> "map", entries |-> entries]
Sequence(elems) == [type |-> "seq", elems |-> elems]
Number == [type |-> "u64"]
Entry(key, val) == [key |-> key, val |-> val]

\* serde::de::Error::missing_field, duplicate_field, unknown_field,
\* invalid_type, invalid_length: the kind and the name or index it carries.
SerdeError(kind, what) == [ok |-> FALSE, err |-> "Serde", kind |-> kind, msg |-> <<what>>]

\* map_err(serde::de::Error::custom): the error's text in a serde error.
Custom(r) == IF r.ok THEN r ELSE [ok |-> FALSE, err |-> "SerdeCustom", msg |-> r.msg]

None == [some |-> FALSE]
Some(x) == [some |-> TRUE, val |-> x]

\* impl Serialize for KeyPair: a struct of two string fields, secret_key
\* then public_key.
KeyPair_serialize(k) ==
    Map(<< Entry("secret_key", Str(KeyPair_to_string(k))),
           Entry("public_key", Str(PublicKey_to_string(KeyPair_get_public_key(k)))) >>)

\* Variant: a second secret_key entry replaces the first.
KeyPair_visit_map_LastWins(entries, i, secret, public) ==
    LET sk == {j \in 1..Len(entries) : entries[j].key = "secret_key" /\ entries[j].val.type = "str"}
        pk == {j \in 1..Len(entries) : entries[j].key = "public_key" /\ entries[j].val.type = "str"}
        last(S) == CHOOSE j \in S : \A k \in S : k <= j
    IN  IF sk = {} THEN SerdeError("missing_field", "secret")
        ELSE IF pk = {} THEN SerdeError("missing_field", "public")
        ELSE KeyPair_visit(entries[last(sk)].val.text, entries[last(pk)].val.text)

\* KeyPairVisitor::visit_map from entry i on, secret and public being the
\* fields read so far: a key that is neither name is an unknown field, a
\* name seen before a duplicate, a value that is no string a type error;
\* after the last entry both fields must have been read.
RECURSIVE KeyPair_visit_map(_, _, _, _)
KeyPair_visit_map(entries, i, secret, public) ==
    IF i > Len(entries)
    THEN IF ~secret.some THEN SerdeError("missing_field", "secret")
         ELSE IF ~public.some THEN SerdeError("missing_field", "public")
         ELSE KeyPair_visit(secret.val, public.val)
    ELSE LET e == entries[i]
         IN  IF e.key = "secret_key"
             THEN IF secret.some THEN SerdeError("duplicate_field", "secret")
                  ELSE IF e.val.type # "str" THEN SerdeError("invalid_type", e.val.type)
                  ELSE KeyPair_visit_map(entries, i + 1, Some(e.val.text), public)
             ELSE IF e.key = "public_key"
             THEN IF public.some THEN SerdeError("duplicate_field", "public")
                  ELSE IF e.val.type # "str" THEN SerdeError("invalid_type", e.val.type)
                  ELSE KeyPair_visit_map(entries, i + 1, secret, Some(e.val.text))
             ELSE SerdeError("unknown_field", e.key)

\* KeyPairVisitor::visit_seq: the first two elements, both strings.
KeyPair_visit_seq(elems) ==
    IF Len(elems) < 1 THEN SerdeError("invalid_length", "0")
    ELSE IF elems[1].type # "str" THEN SerdeError("invalid_type", elems[1].type)
    ELSE IF Len(elems) < 2 THEN SerdeError("invalid_length", "1")
    ELSE IF elems[2].type # "str" THEN SerdeError("invalid_type", elems[2].type)
    ELSE KeyPair_visit(elems[1].text, elems[2].text)

\* impl Deserialize for KeyPair: deserialize_struct gives the visitor a map
\* or a sequence.
KeyPair_deserialize(v) ==
    IF v.type = "map" THEN KeyPair_visit_map(v.entries, 1, None, None)
    ELSE IF v.type = "seq" THEN KeyPair_visit_seq(v.elems)
    ELSE SerdeError("invalid_type", v.type)

\* impl Serialize for PublicKey: the text form, for any format.
PublicKey_serialize(p) == Str(PublicKey_to_string(p))

\* impl Deserialize for PublicKey: deserialize_str, visit_str.
PublicKey_deserialize(v) ==
    IF v.type = "str" THEN Custom(PublicKey_from_str(v.text))
    ELSE SerdeError("invalid_type", v.type)

\* Variant: the text form for every format.
Signature_serialize_AlwaysText(s, human_readable) == Str(Signature_to_bs58_check(s))

\* impl Serialize for Signature
Signature_serialize(s, human_readable) ==
    IF human_readable THEN Str(Signature_to_bs58_check(s))
    ELSE Bytes(Signature_to_bytes(s))

\* impl Deserialize for Signature
Signature_deserialize(v, human_readable) ==
    IF human_readable
    THEN IF v.type = "str" THEN Custom(Signature_from_str(v.text))
         ELSE SerdeError("invalid_type", v.type)
    ELSE IF v.type = "bytes" THEN Custom(Signature_from_bytes(v.bytes))
         ELSE SerdeError("invalid_type", v.type)

\* ------------------------------------------------------------------ inputs
Seeds == 0..MaxSeed
Hashes == {HashOf(t) : t \in 0..MaxHash}
Versions == 0..MaxVersion
Kinds == {"KeyPair", "PublicKey", "Signature"}

\* Trailing bytes: every length up to MaxGarbage, two fillings.
Garbage == {[i \in 1..n |-> f] : n \in 0..MaxGarbage, f \in {7, 255}}

\* A secret other than sk.
OtherSecret(sk) == [i \in 1..32 |-> (sk[i] + 1) % 256]

\* The public keys of every version and seed.
PublicKeyPool ==
    {KeyPair_get_public_key(KeyPairV_generate(v, SecretOf(s))) : v \in {0, 1}, s \in Seeds}

\* One (hash, signature, public key) triple of a batch.  The signature is
\* made over h by the version-v key pair holding k's secret; kind says what
\* is presented with it:
\*   valid             h and the signer's public key
\*   badhash           another hash
\*   wrongkey          the public key of another secret, same version
\*   mismatch          the signer's key bytes under the other version
\*   mismatch_badhash  both
ItemKinds == {"valid", "badhash", "wrongkey", "mismatch", "mismatch_badhash"}

Item(k, kind, v, h, h2) ==
    LET signer == KeyPairV_generate(v, k.secret)
        own == KeyPair_get_public_key(signer)
    IN  [hash |-> IF kind \in {"badhash", "mismatch_badhash"} THEN h2 ELSE h,
         sig |-> KeyPair_sign(signer, h).val,
         pk |-> IF kind \in {"valid", "badhash"} THEN own
                ELSE IF kind = "wrongkey"
                     THEN KeyPair_get_public_key(KeyPairV_generate(v, OtherSecret(k.secret)))
                     ELSE PublicKey_from_bytes(<<1 - v>> \o own.pk).val]

ItemSpecs == ItemKinds \X {0, 1}

\* Batches of up to MaxBatch items.
BatchSpecs == UNION {[1..n -> ItemSpecs] : n \in 0..MaxBatch}

\* to_bytes / from_bytes / to_string / from_str of the three types.
ToBytesOf(kind, x) ==
    IF kind = "KeyPair" THEN KeyPair_to_bytes(x)
    ELSE IF kind = "PublicKey" THEN PublicKey_to_bytes(x)
    ELSE Signature_to_bytes(x)

FromBytesOf(kind, data) ==
    IF kind = "KeyPair" THEN KeyPair_from_bytes(data)
    ELSE IF kind = "PublicKey" THEN PublicKey_from_bytes(data)
    ELSE Signature_from_bytes(data)

ToStringOf(kind, x) ==
    IF kind = "KeyPair" THEN KeyPair_to_string(x)
    ELSE IF kind = "PublicKey" THEN PublicKey_to_string(x)
    ELSE Signature_to_string(x)

FromStrOf(kind, s) ==
    IF kind = "KeyPair" THEN KeyPair_from_str(s)
    ELSE IF kind = "PublicKey" THEN PublicKey_from_str(s)
    ELSE Signature_from_str(s)

\* The value of each type the caller holds: its key pair, that key pair's
\* public key, that key pair's signature of h.
ValueOf(kind, k, h) ==
    IF kind = "KeyPair" THEN k
    ELSE IF kind = "PublicKey" THEN KeyPair_get_public_key(k)
    ELSE KeyPair_sign(k, h).val

\* -------------------------------------------------------------------- state
VARIABLES
    pc,     \* "idle": the caller is about to call; "called": a call returned
    kp,     \* the KeyPair the caller holds
    op,     \* the call that returned
    arg,    \* its inputs
    out,    \* its result
    task,        \* new_blocks_headers' spawned task: "select", "send", "done"
    request_id,  \* its request_id
    pending,     \* the item its tx.send(..).await is sending
    event,       \* what it did in the last step, "none" after a step of another
    taken,       \* history: the ids of the requests it took, in order
    in_stream,   \* the inbound frames not yet taken, closed or not, frames sent
    subscriber,  \* the broadcast receiver: retained headers, lagged, closed
    chan,        \* the items in the output channel
    rx           \* the receiver of the output channel: "open" or "dropped"

streamVars == << task, request_id, pending, event, taken, in_stream, subscriber, chan, rx >>

callerVars == << pc, kp, op, arg, out >>

vars == << pc, kp, op, arg, out, streamVars >>

Nothing == << >>

\* new_blocks_headers has returned: the task is spawned with an empty
\* request_id, nothing has arrived and nothing was sent.
Spawned ==
    /\ task = "select"
    /\ request_id = ""
    /\ pending = None
    /\ event = "none"
    /\ taken = << >>
    /\ in_stream = [frames |-> << >>, closed |-> FALSE, sent |-> 0]
    /\ subscriber = [queue |-> << >>, lagged |-> FALSE, closed |-> FALSE]
    /\ chan = << >>
    /\ rx = "open"

\* The caller starts with a generated key pair.
Init ==
    /\ pc = "idle"
    /\ \E v \in {0, 1}, s \in Seeds : kp = KeyPair_generate(v, SecretOf(s)).val
    /\ op = "none"
    /\ arg = Nothing
    /\ out = Nothing
    /\ Spawned

Returned(o, a, r) ==
    /\ pc' = "called"
    /\ op' = o
    /\ arg' = a
    /\ out' = r
    /\ UNCHANGED streamVars

\* KeyPair::generate(version); the caller keeps the new key pair.
Generate(version, seed) ==
    /\ pc = "idle"
    /\ LET r == KeyPair_generate(version, SecretOf(seed))
       IN  /\ Returned("generate", [version |-> version], r)
           /\ kp' = IF r.ok THEN r.val ELSE kp

\* kp.clone(); the caller keeps the clone.
Clone ==
    /\ pc = "idle"
    /\ LET c == KeyPair_clone(kp)
       IN  /\ Returned("clone", [k |-> kp], Ok(c))
           /\ kp' = c

\* sig = kp.sign(h), then pk.verify_signature(h2, sig) for the key pair's
\* own public key, the same key bytes under the other version, or the
\* public key of another secret.
SignVerify(h, h2, who) ==
    /\ pc = "idle"
    /\ LET sig == KeyPair_sign(kp, h).val
           own == KeyPair_get_public_key(kp)
           pk == IF who = "self" THEN own
                 ELSE IF who = "other_version"
                      THEN PublicKey_from_bytes(<<1 - own.v>> \o own.pk).val
                      ELSE KeyPair_get_public_key(
                               KeyPairV_generate(kp.v, OtherSecret(kp.secret)))
       IN  Returned("sign_verify",
                    [k |-> kp, hash |-> h, hash2 |-> h2, sig |-> sig, pk |-> pk],
                    PublicKey_verify_signature(pk, h2, sig))
    /\ UNCHANGED kp

\* verify_signature_batch(batch)
VerifyBatch(spec, h, h2) ==
    /\ pc = "idle"
    /\ h2 # h
    /\ LET batch == [i \in 1..Len(spec) |-> Item(kp, spec[i][1], spec[i][2], h, h2)]
       IN  Returned("verify_batch", [batch |-> batch], verify_signature_batch(batch))
    /\ UNCHANGED kp

\* from_bytes(x.to_bytes() ++ g); a decoded KeyPair is kept.
RoundTripBytes(kind, h, g) ==
    /\ pc = "idle"
    /\ LET x == ValueOf(kind, kp, h)
           r == FromBytesOf(kind, ToBytesOf(kind, x) \o g)
       IN  /\ Returned("roundtrip_bytes", [kind |-> kind, x |-> x, garbage |-> g], r)
           /\ kp' = IF kind = "KeyPair" /\ r.ok THEN r.val ELSE kp

\* from_str(x.to_string()), and Signature::from_bs58_check(x.to_bs58_check());
\* a decoded KeyPair is kept.
RoundTripText(kind, h, via) ==
    /\ pc = "idle"
    /\ via = "from_bs58_check" => kind = "Signature"
    /\ LET x == ValueOf(kind, kp, h)
           r == IF via = "from_bs58_check"
                THEN Signature_from_bs58_check(Signature_to_bs58_check(x))
                ELSE FromStrOf(kind, ToStringOf(kind, x))
       IN  /\ Returned("roundtrip_text", [kind |-> kind, x |-> x, via |-> via], r)
           /\ kp' = IF kind = "KeyPair" /\ r.ok THEN r.val ELSE kp

\* a.cmp(&b), a.partial_cmp(&b) and a == b of two public keys.
Compare(a, b) ==
    /\ pc = "idle"
    /\ Returned("compare", [a |-> a, b |-> b],
                Ok([ord |-> PublicKey_cmp(a, b),
                    partial |-> PublicKey_partial_cmp(a, b),
                    eq |-> PublicKey_eq(a, b)]))
    /\ UNCHANGED kp

\* The caller takes the result and goes on to its next call.
Return ==
    /\ pc = "called"
    /\ pc' = "idle"
    /\ UNCHANGED streamVars
    /\ op' = "none"
    /\ arg' = Nothing
    /\ out' = Nothing
    /\ UNCHANGED kp

Next ==
    \/ \E v \in Versions, s \in Seeds : Generate(v, s)
    \/ Clone
    \/ \E h \in Hashes, h2 \in Hashes, who \in {"self", "other_version", "other_key"} :
          SignVerify(h, h2, who)
    \/ \E spec \in BatchSpecs, h \in Hashes, h2 \in Hashes : VerifyBatch(spec, h, h2)
    \/ \E kind \in Kinds, h \in Hashes, g \in Garbage : RoundTripBytes(kind, h, g)
    \/ \E kind \in Kinds, h \in Hashes, via \in {"from_str", "from_bs58_check"} :
          RoundTripText(kind, h, via)
    \/ \E a \in PublicKeyPool, b \in PublicKeyPool : Compare(a, b)
    \/ Return

Spec == Init /\ [][Next]_vars

\* ------------------------------------------- decoding, framing, ordering
\* Longest sequence of keys put into an ordered set.
MaxKeys == 3

\* A version far from the known ones, two varint bytes long.
FarVersion == 200

GetSerLenOf(kind, x) ==
    IF kind = "KeyPair" THEN KeyPair_get_ser_len(x)
    ELSE IF kind = "PublicKey" THEN PublicKey_get_ser_len(x)
    ELSE Signature_get_ser_len(x)

\* The payload a value holds, and the size from_bytes asks for.
PayloadOf(kind, x) ==
    IF kind = "KeyPair" THEN x.secret
    ELSE IF kind = "PublicKey" THEN x.pk
    ELSE x.sig

PayloadSizeOf(kind) ==
    IF kind = "KeyPair" THEN SECRET_KEY_BYTES_SIZE
    ELSE IF kind = "PublicKey" THEN PUBLIC_KEY_SIZE_BYTES
    ELSE SIGNATURE_SIZE_BYTES

\* What may stand where the version tag is: nothing, the varint of each
\* version up to MaxVersion and of FarVersion, a two-byte encoding of 0, and
\* a first group with no last group.
Tags ==
    {<< >>, <<128, 0>>, <<129>>, VarIntSerialize(FarVersion)}
        \cup {VarIntSerialize(v) : v \in Versions}

\* How many of the bytes after the tag are there: none, one, one less than
\* the payload, the payload, the payload and MaxGarbage more.
CutsOf(kind) ==
    {0, 1, PayloadSizeOf(kind) - 1, PayloadSizeOf(kind), PayloadSizeOf(kind) + MaxGarbage}

\* The input of a decoder: a tag, then the first n of x's payload bytes
\* followed by MaxGarbage other bytes.
Buffer(kind, x, tag, n) ==
    tag \o Take(PayloadOf(kind, x) \o [i \in 1..MaxGarbage |-> 7], n)

\* The input of a from_str: nothing, the text of a value of type src as it
\* is, with its first character replaced by the other prefix, without its
\* first character, or with its last character replaced.
TextForms == {"empty", "as_is", "other_prefix", "no_prefix", "corrupt"}

\* A text with its last character replaced by another of the alphabet.
Corrupt(t) == [t EXCEPT ![Len(t)] = IF @ = "1" THEN "2" ELSE "1"]

TextOf(src, x, form) ==
    LET t == ToStringOf(src, x)
    IN  IF form = "empty" THEN << >>
        ELSE IF form = "as_is" THEN t
        ELSE IF form = "no_prefix" THEN Drop(t, 1)
        ELSE IF form = "corrupt" THEN Corrupt(t)
        ELSE << IF t[1] = SECRET_PREFIX THEN PUBLIC_PREFIX ELSE SECRET_PREFIX >>
                 \o Drop(t, 1)

\* Sequences of one to MaxKeys public keys, repetitions included.
KeySeqs == UNION {[1..n -> PublicKeyPool] : n \in 1..MaxKeys}

\* kp.get_version(), kp.get_public_key() and kp.sign(h)
Derive(h) ==
    /\ pc = "idle"
    /\ Returned("derive", [k |-> kp, hash |-> h],
                Ok([version |-> KeyPair_get_version(kp),
                    pk |-> KeyPair_get_public_key(kp),
                    sig |-> KeyPair_sign(kp, h)]))
    /\ UNCHANGED kp

\* x.to_bytes() and x.get_ser_len()
Serialize(kind, h) ==
    /\ pc = "idle"
    /\ LET x == ValueOf(kind, kp, h)
       IN  Returned("serialize", [kind |-> kind, x |-> x],
                    Ok([bytes |-> ToBytesOf(kind, x), ser_len |-> GetSerLenOf(kind, x)]))
    /\ UNCHANGED kp

\* from_bytes(data) on data that need not be a serialized value.
DecodeBytes(kind, h, tag, n) ==
    /\ pc = "idle"
    /\ LET x == ValueOf(kind, kp, h)
           data == Buffer(kind, x, tag, n)
       IN  Returned("decode_bytes", [kind |-> kind, x |-> x, tag |-> tag, data |-> data],
                    FromBytesOf(kind, data))
    /\ UNCHANGED kp

\* PublicKeyDeserializer / SignatureDeserializer ::deserialize(buffer)
Deserialize(kind, h, tag, n) ==
    /\ pc = "idle"
    /\ kind \in {"PublicKey", "Signature"}
    /\ LET x == ValueOf(kind, kp, h)
           buffer == Buffer(kind, x, tag, n)
       IN  Returned("deserialize", [kind |-> kind, x |-> x, buffer |-> buffer],
                    IF kind = "PublicKey" THEN PublicKeyDeserializer_deserialize(buffer)
                    ELSE SignatureDeserializer_deserialize(buffer))
    /\ UNCHANGED kp

\* from_str(text) of type kind on a text made from a value of type src.
ParseText(kind, src, form, h) ==
    /\ pc = "idle"
    /\ LET x == ValueOf(src, kp, h)
           text == TextOf(src, x, form)
       IN  Returned("parse_text",
                    [kind |-> kind, src |-> src, form |-> form, x |-> x, text |-> text],
                    FromStrOf(kind, text))
    /\ UNCHANGED kp

\* Structured decoding of a KeyPair whose secret_key field is kp's text and
\* whose public_key field is the text of kp's public key, of the public key
\* of another secret, or no key's text; a decoded KeyPair is kept.
DeserializeKeyPair(field) ==
    /\ pc = "idle"
    /\ LET own == KeyPair_get_public_key(kp)
           other == KeyPair_get_public_key(KeyPairV_generate(kp.v, OtherSecret(kp.secret)))
           public == IF field = "own" THEN PublicKey_to_string(own)
                     ELSE IF field = "other" THEN PublicKey_to_string(other)
                     ELSE << >>
           r == KeyPair_visit(KeyPair_to_string(kp), public)
       IN  /\ Returned("deserialize_keypair",
                       [k |-> kp, field |-> field, public |-> public], r)
           /\ kp' = IF r.ok THEN r.val ELSE kp

\* The hasher input of two public keys.
HashKeys(a, b) ==
    /\ pc = "idle"
    /\ Returned("hash_keys", [a |-> a, b |-> b],
                Ok([a |-> PublicKey_hash(a), b |-> PublicKey_hash(b)]))
    /\ UNCHANGED kp

\* An empty BTreeSet extended with keys, then first(), as in the test
\* pubkey_ordering.
OrderedSet(keys) ==
    /\ pc = "idle"
    /\ LET set == BTreeSet_extend(<< >>, keys)
       IN  Returned("ordered_set", [keys |-> keys],
                    Ok([set |-> set, first |-> BTreeSet_first(set)]))
    /\ UNCHANGED kp

\* The same keys put in a BTreeSet and in a HashSet.
BothSets(keys) ==
    /\ pc = "idle"
    /\ Returned("both_sets", [keys |-> keys],
                Ok([ordered |-> BTreeSet_extend(<< >>, keys),
                    hashed |-> HashSet_extend({}, keys)]))
    /\ UNCHANGED kp

\* The constructors, accessors, encoders and decoders of the three types.
CodecNext ==
    \/ \E v \in Versions, s \in Seeds : Generate(v, s)
    \/ Clone
    \/ \E h \in Hashes : Derive(h)
    \/ \E kind \in Kinds, h \in Hashes : Serialize(kind, h)
    \/ \E kind \in Kinds, h \in Hashes, tag \in Tags : \E n \in CutsOf(kind) :
          DecodeBytes(kind, h, tag, n)
    \/ \E kind \in Kinds, h \in Hashes, tag \in Tags : \E n \in CutsOf(kind) :
          Deserialize(kind, h, tag, n)
    \/ \E kind \in Kinds, src \in Kinds, form \in TextForms, h \in Hashes :
          ParseText(kind, src, form, h)
    \/ \E field \in {"own", "other", "none"} : DeserializeKeyPair(field)
    \/ \E kind \in Kinds, h \in Hashes, g \in Garbage : RoundTripBytes(kind, h, g)
    \/ \E kind \in Kinds, h \in Hashes, via \in {"from_str", "from_bs58_check"} :
          RoundTripText(kind, h, via)
    \/ Return

CodecSpec == Init /\ [][CodecNext]_vars

\* Public keys as keys of ordered and hashed collections.
OrderNext ==
    \/ \E a \in PublicKeyPool, b \in PublicKeyPool : Compare(a, b)
    \/ \E a \in PublicKeyPool, b \in PublicKeyPool : HashKeys(a, b)
    \/ \E keys \in KeySeqs : OrderedSet(keys)
    \/ \E keys \in KeySeqs : BothSets(keys)
    \/ Return

OrderSpec == Init /\ [][OrderNext]_vars

\* ------------------------------------------------------ structured forms
\* Most entries of a map given to the KeyPair visitor.
MaxFields == 3

\* The entries a structured KeyPair may be made of: the secret_key of k,
\* that text with its last character replaced, the public_key of k, the
\* public_key of another secret, a public_key that is no string, and an
\* entry of another name.
FieldKinds == {"sk", "sk_corrupt", "pk_own", "pk_other", "pk_number", "unknown"}

\* The three texts the entries are made of.
FieldTexts(k) ==
    [sk |-> KeyPair_to_string(k),
     pk_own |-> PublicKey_to_string(KeyPair_get_public_key(k)),
     pk_other |-> PublicKey_to_string(KeyPair_get_public_key(
                      KeyPairV_generate(k.v, OtherSecret(k.secret))))]

FieldOf(kind, texts) ==
    IF kind = "sk" THEN Entry("secret_key", Str(texts.sk))
    ELSE IF kind = "sk_corrupt" THEN Entry("secret_key", Str(Corrupt(texts.sk)))
    ELSE IF kind = "pk_own" THEN Entry("public_key", Str(texts.pk_own))
    ELSE IF kind = "pk_other" THEN Entry("public_key", Str(texts.pk_other))
    ELSE IF kind = "pk_number" THEN Entry("public_key", Number)
    ELSE Entry("comment", Str(<<"x">>))

\* Maps of up to MaxFields entries; sequences of up to two elements, the
\* two the visitor reads.
FieldSeqs(form) ==
    UNION {[1..n -> FieldKinds] : n \in 0..(IF form = "map" THEN MaxFields ELSE 2)}

SerializeOf(kind, x, human_readable) ==
    IF kind = "KeyPair" THEN KeyPair_serialize(x)
    ELSE IF kind = "PublicKey" THEN PublicKey_serialize(x)
    ELSE Signature_serialize(x, human_readable)

DeserializeOf(kind, v, human_readable) ==
    IF kind = "KeyPair"
    THEN KeyPair_deserialize(IF human_readable THEN v
                             ELSE Sequence([i \in 1..Len(v.entries) |-> v.entries[i].val]))
    ELSE IF kind = "PublicKey" THEN PublicKey_deserialize(v)
    ELSE Signature_deserialize(v, human_readable)

\* Deserialize for KeyPair on a map or a sequence made of entries of the
\* given kinds; a decoded KeyPair is kept.
DeserializeStruct(form) ==
    /\ pc = "idle"
    /\ \E texts \in {FieldTexts(kp)} :
           \E fields \in FieldSeqs(form) :
              LET entries == [i \in 1..Len(fields) |-> FieldOf(fields[i], texts)]
                  v == IF form = "map" THEN Map(entries)
                       ELSE Sequence([i \in 1..Len(entries) |-> entries[i].val])
                  r == KeyPair_deserialize(v)
              IN  /\ Returned("deserialize_struct",
                              [form |-> form, fields |-> fields, value |-> v, k |-> kp], r)
                  /\ kp' = IF r.ok THEN r.val ELSE kp

\* serialize x, deserialize the result, serialize that again, with a
\* human-readable format (a struct is a map) or another (a struct is the
\* sequence of its fields); a decoded KeyPair is kept.
RoundTripSerde(kind, h, human_readable) ==
    /\ pc = "idle"
    /\ \E x \in {ValueOf(kind, kp, h)} :
       \E ser \in {SerializeOf(kind, x, human_readable)} :
       \E de \in {DeserializeOf(kind, ser, human_readable)} :
       \E again \in {IF de.ok THEN Some(SerializeOf(kind, de.val, human_readable)) ELSE None} :
          /\ Returned("roundtrip_serde",
                      [kind |-> kind, x |-> x, human_readable |-> human_readable],
                      [ok |-> de.ok, de |-> de, ser |-> ser, again |-> again])
          /\ kp' = IF kind = "KeyPair" /\ de.ok THEN de.val ELSE kp

\* The structured forms of the three types, and the decoders of a KeyPair.
SerdeNext ==
    \/ \E v \in Versions, s \in Seeds : Generate(v, s)
    \/ \E form \in {"map", "seq"} : DeserializeStruct(form)
    \/ \E kind \in Kinds, h \in Hashes, human_readable \in BOOLEAN :
          RoundTripSerde(kind, h, human_readable)
    \/ \E kind \in Kinds, src \in Kinds, form \in TextForms, h \in Hashes :
          ParseText(kind, src, form, h)
    \/ \E kind \in Kinds, h \in Hashes, tag \in Tags : \E n \in CutsOf(kind) :
          DecodeBytes(kind, h, tag, n)
    \/ Return

SerdeSpec == Init /\ [][SerdeNext]_vars

\* ----------------------------------------- new_blocks_headers stream task
\* Most frames a client sends on the inbound stream.
MaxFrames == 2

\* Block headers are 1..MaxHeader.
MaxHeader == 1

\* Most headers the broadcast channel retains for a receiver.
BroadcastCapacity == 1

\* grpc_config.max_channel_size: the capacity of the output channel.
max_channel_size == 1

RequestIds == {"a", "b"}
Headers == 1..MaxHeader

\* A tonic::Status: a broken pipe, another IO error, an error that is no IO
\* error.
StatusKinds == {"BrokenPipe", "OtherIo", "NotIo"}
Status(kind) == [ok |-> FALSE, err |-> kind]

\* NewBlocksHeadersRequest { id }
NewBlocksHeadersRequest(id) == [id |-> id]

\* The frames of the inbound stream: Ok(request) or Err(status).
Frames == {Ok(NewBlocksHeadersRequest(id)) : id \in RequestIds}
             \cup {Status(kind) : kind \in StatusKinds}

\* NewBlocksHeadersResponse { id, block_header }; after is history, no part
\* of the message: how many requests the task had taken when it made it.
NewBlocksHeadersResponse(id, block_header, after) ==
    [id |-> id, block_header |-> block_header, after |-> after]

\* Variant: every IO error is taken for a broken pipe.
IsBrokenPipe_AnyIo(err) == err.err \in {"BrokenPipe", "OtherIo"}

\* match_for_io_error(&err) is Some(io_err) with io_err.kind() == BrokenPipe
IsBrokenPipe(err) == err.err = "BrokenPipe"

\* subscriber.recv() has a result: a missed header to report, a retained
\* header, or no sender left.
SubscriberReady ==
    subscriber.lagged \/ subscriber.queue # << >> \/ subscriber.closed

\* The result of subscriber.recv(): Lagged first, then the oldest retained
\* header, Closed when no sender and no header is left.
SubscriberRecv ==
    IF subscriber.lagged THEN Status("Lagged")
    ELSE IF subscriber.queue # << >> THEN Ok(Head(subscriber.queue))
    ELSE Status("Closed")

\* Variant: the inbound stream is looked at when the subscription has
\* nothing, as in a select! that is biased to its first branch.
InboundReady_AfterSubscriber ==
    (in_stream.frames # << >> \/ in_stream.closed) /\ ~SubscriberReady

\* in_stream.next() has a result: a frame, or the end of the stream.
InboundReady == in_stream.frames # << >> \/ in_stream.closed

\* select! takes the branch of subscriber.recv() with Ok(header): the
\* response is made with the request_id of now and tx.send(..) starts.
RecvHeader ==
    /\ task = "select"
    /\ SubscriberReady
    /\ SubscriberRecv.ok
    /\ pending' = Some(Ok(NewBlocksHeadersResponse(request_id, SubscriberRecv.val,
                                                   Len(taken))))
    /\ subscriber' = [subscriber EXCEPT !.queue = Tail(@)]
    /\ task' = "send"
    /\ event' = "header"
    /\ UNCHANGED << request_id, taken, in_stream, chan, rx, callerVars >>

\* select! takes the branch of subscriber.recv() with Err(e): the error is
\* logged and the loop goes on.
RecvError ==
    /\ task = "select"
    /\ SubscriberReady
    /\ ~SubscriberRecv.ok
    /\ subscriber' = [subscriber EXCEPT !.lagged = FALSE]
    /\ event' = "recv_error"
    /\ UNCHANGED << task, request_id, pending, taken, in_stream, chan, rx, callerVars >>

\* Variant: the first request's id is kept.
TakeRequest_KeepFirst ==
    /\ task = "select"
    /\ InboundReady
    /\ in_stream.frames # << >>
    /\ Head(in_stream.frames).ok
    /\ request_id' = IF request_id = "" THEN Head(in_stream.frames).val.id ELSE request_id
    /\ taken' = Append(taken, Head(in_stream.frames).val.id)
    /\ in_stream' = [in_stream EXCEPT !.frames = Tail(@)]
    /\ event' = "request"
    /\ UNCHANGED << task, pending, subscriber, chan, rx, callerVars >>

\* select! takes the branch of in_stream.next() with Some(Ok(data)):
\* request_id = data.id
TakeRequest ==
    /\ task = "select"
    /\ InboundReady
    /\ in_stream.frames # << >>
    /\ Head(in_stream.frames).ok
    /\ request_id' = Head(in_stream.frames).val.id
    /\ taken' = Append(taken, Head(in_stream.frames).val.id)
    /\ in_stream' = [in_stream EXCEPT !.frames = Tail(@)]
    /\ event' = "request"
    /\ UNCHANGED << task, pending, subscriber, chan, rx, callerVars >>

\* select! takes the branch of in_stream.next() with Some(Err(err)): a
\* broken pipe ends the loop, any other error is logged and tx.send(Err(err))
\* starts.
TakeError ==
    /\ task = "select"
    /\ InboundReady
    /\ in_stream.frames # << >>
    /\ ~Head(in_stream.frames).ok
    /\ in_stream' = [in_stream EXCEPT !.frames = Tail(@)]
    /\ IF IsBrokenPipe(Head(in_stream.frames))
       THEN /\ task' = "done"
            /\ event' = "broken_pipe"
            /\ UNCHANGED pending
       ELSE /\ task' = "send"
            /\ event' = "inbound_error"
            /\ pending' = Some(Head(in_stream.frames))
    /\ UNCHANGED << request_id, taken, subscriber, chan, rx, callerVars >>

\* select! takes the branch of in_stream.next() with None: the loop ends.
TakeEnd ==
    /\ task = "select"
    /\ InboundReady
    /\ in_stream.frames = << >>
    /\ task' = "done"
    /\ event' = "inbound_end"
    /\ UNCHANGED << request_id, pending, taken, in_stream, subscriber, chan, rx,
                    callerVars >>

\* tx.send(item).await returns: Err when the receiver is gone, and the loop
\* ends; Ok once the channel has room for the item, and the loop goes on.
\* With a full channel and a receiver it does not return.
Send ==
    /\ task = "send"
    /\ IF rx = "dropped"
       THEN /\ task' = "done"
            /\ event' = "send_failed"
            /\ UNCHANGED chan
       ELSE /\ Len(chan) < max_channel_size
            /\ chan' = Append(chan, pending.val)
            /\ task' = "select"
            /\ event' = "sent"
    /\ pending' = None
    /\ UNCHANGED << request_id, taken, in_stream, subscriber, rx, callerVars >>

\* The client sends a frame.
ClientSend(frame) ==
    /\ ~in_stream.closed
    /\ in_stream.sent < MaxFrames
    /\ in_stream' = [in_stream EXCEPT !.frames = Append(@, frame), !.sent = @ + 1]
    /\ event' = "none"
    /\ UNCHANGED << task, request_id, pending, taken, subscriber, chan, rx, callerVars >>

\* The client closes the inbound stream.
ClientClose ==
    /\ ~in_stream.closed
    /\ in_stream' = [in_stream EXCEPT !.closed = TRUE]
    /\ event' = "none"
    /\ UNCHANGED << task, request_id, pending, taken, subscriber, chan, rx, callerVars >>

\* block_header_sender.send(header): with BroadcastCapacity headers retained
\* the oldest is dropped and the receiver has lagged.
Broadcast(header) ==
    /\ ~subscriber.closed
    /\ subscriber' =
          IF Len(subscriber.queue) < BroadcastCapacity
          THEN [subscriber EXCEPT !.queue = Append(@, header)]
          ELSE [subscriber EXCEPT !.queue = Append(Tail(@), header), !.lagged = TRUE]
    /\ event' = "none"
    /\ UNCHANGED << task, request_id, pending, taken, in_stream, chan, rx, callerVars >>

\* The last block_header_sender is dropped.
BroadcastClose ==
    /\ ~subscriber.closed
    /\ subscriber' = [subscriber EXCEPT !.closed = TRUE]
    /\ event' = "none"
    /\ UNCHANGED << task, request_id, pending, taken, in_stream, chan, rx, callerVars >>

\* The ReceiverStream yields the oldest item of the channel.
Consume ==
    /\ rx = "open"
    /\ chan # << >>
    /\ chan' = Tail(chan)
    /\ event' = "none"
    /\ UNCHANGED << task, request_id, pending, taken, in_stream, subscriber, rx,
                    callerVars >>

\* The ReceiverStream is dropped, and the items of the channel with it.
DropReceiver ==
    /\ rx = "open"
    /\ rx' = "dropped"
    /\ chan' = << >>
    /\ event' = "none"
    /\ UNCHANGED << task, request_id, pending, taken, in_stream, subscriber, callerVars >>

\* The stream of one call of new_blocks_headers.
StreamInit ==
    /\ Init
    /\ kp = KeyPair_generate(0, SecretOf(0)).val

StreamNext ==
    \/ RecvHeader
    \/ RecvError
    \/ TakeRequest
    \/ TakeError
    \/ TakeEnd
    \/ Send
    \/ \E frame \in Frames : ClientSend(frame)
    \/ ClientClose
    \/ \E header \in Headers : Broadcast(header)
    \/ BroadcastClose
    \/ Consume
    \/ DropReceiver

StreamSpec == StreamInit /\ [][StreamNext]_vars

\* select! takes one of its ready branches at random, so the branch of
\* in_stream.next() is taken in the end when it is ready again and again; a
\* send returns when it can; the receiver, while it is there, takes what the
\* channel holds.
FairStreamSpec ==
    /\ StreamInit
    /\ [][StreamNext]_vars
    /\ SF_vars(TakeRequest \/ TakeError \/ TakeEnd)
    /\ WF_vars(Send)
    /\ WF_vars(Consume)

\* ------------------------------------------------------------------ claims
IsErr(r, kind) == ~r.ok /\ r.err = kind

\* Item i of the batch has a signature and a public key of one version.
Matched(batch, i) == batch[i].sig.v = batch[i].pk.v

\* Item i of the batch passes the scalar check.
ScalarOk(batch, i) ==
    PublicKey_verify_signature(batch[i].pk, batch[i].hash, batch[i].sig).ok

\* C1: for a key pair k of version 0 or 1 that was generated or decoded and
\* any hash h, k.get_public_key().verify_signature(h, k.sign(h)) is Ok.
C1_SignThenVerify ==
    (op = "sign_verify" /\ arg.pk = KeyPair_get_public_key(arg.k)
        /\ arg.hash2 = arg.hash)
    => out = Ok(Unit)

\* C1 witness: a version-1 key pair verified its own signature.
C1_Witness ==
    /\ op = "sign_verify"
    /\ arg.k.v = 1
    /\ arg.pk = KeyPair_get_public_key(arg.k)
    /\ arg.hash2 = arg.hash
    /\ out.ok

\* C2: verifying k.sign(h) against another hash h2 with k's public key is an
\* error of kind SignatureError.
C2_OtherHashIsSignatureError ==
    (op = "sign_verify" /\ arg.pk = KeyPair_get_public_key(arg.k)
        /\ arg.hash2 # arg.hash)
    => IsErr(out, "SignatureError")

\* C2 witness: a signature was checked against a hash it was not made for.
C2_Witness ==
    /\ op = "sign_verify"
    /\ arg.pk = KeyPair_get_public_key(arg.k)
    /\ arg.hash2 # arg.hash
    /\ IsErr(out, "SignatureError")

\* C3: verify_signature is InvalidVersion whenever the key's version is not
\* the signature's, for every hash, also when the raw bytes would verify.
C3_VersionMismatchRejected ==
    (op = "sign_verify" /\ arg.pk.v # arg.sig.v)
    => IsErr(out, "InvalidVersionError")

\* C3 witness: a V1 key was asked to verify a V0 signature whose bytes
\* verify under that key's bytes.
C3_Witness ==
    /\ op = "sign_verify"
    /\ arg.pk.v = 1
    /\ arg.sig.v = 0
    /\ Ed_verify(arg.pk.pk, arg.hash2, arg.sig.sig)
    /\ IsErr(out, "InvalidVersionError")

\* C4: verify_signature_batch(batch) is Ok exactly when every item passes
\* the scalar verify_signature, for batches of length 0, 1 and more.
C4_BatchIffEveryScalar ==
    op = "verify_batch"
    => (out.ok <=> \A i \in 1..Len(arg.batch) : ScalarOk(arg.batch, i))

\* C4 witness: a batch of two or more items passed, and the items are not
\* all of one version.
C4_Witness ==
    /\ op = "verify_batch"
    /\ Len(arg.batch) >= 2
    /\ out.ok
    /\ \E i, j \in 1..Len(arg.batch) : arg.batch[i].pk.v # arg.batch[j].pk.v

\* Some two items of the batch differ in version, or one item's signature
\* and key do.
MixedVersions(batch) ==
    \E i, j \in 1..Len(batch) :
        \/ batch[i].sig.v # batch[j].sig.v
        \/ batch[i].pk.v # batch[j].pk.v
        \/ batch[i].sig.v # batch[i].pk.v

\* C5 as claimed: every batch of two or more items that do not all share
\* one version fails with InvalidVersion.
C5_MixedBatchRejected ==
    (op = "verify_batch" /\ Len(arg.batch) >= 2 /\ MixedVersions(arg.batch))
    => IsErr(out, "InvalidVersionError")

\* C5 amended: a batch of two or more items fails with InvalidVersion
\* exactly when some item's signature version differs from that item's own
\* public key version; V0 items and V1 items in one batch, each with
\* matching versions, are verified together.
C5_RejectedIffSomePairMismatched ==
    (op = "verify_batch" /\ Len(arg.batch) >= 2)
    => (IsErr(out, "InvalidVersionError")
            <=> \E i \in 1..Len(arg.batch) : ~Matched(arg.batch, i))

\* C5 witness: a V0 item and a V1 item, each matched, in one batch that
\* passed.
C5_Witness ==
    /\ op = "verify_batch"
    /\ Len(arg.batch) >= 2
    /\ \A i \in 1..Len(arg.batch) : Matched(arg.batch, i)
    /\ \E i, j \in 1..Len(arg.batch) : arg.batch[i].sig.v # arg.batch[j].sig.v
    /\ out = Ok(Unit)

\* C6: a non-empty batch with an item whose signature and key versions
\* differ is InvalidVersion whatever that item's position and whatever the
\* other signatures; SignatureError only when every item is matched and the
\* verification fails.
C6_MismatchBeatsBadSignature ==
    (op = "verify_batch" /\ Len(arg.batch) >= 1)
    => /\ (\E i \in 1..Len(arg.batch) : ~Matched(arg.batch, i))
            => IsErr(out, "InvalidVersionError")
       /\ IsErr(out, "SignatureError")
            => /\ \A i \in 1..Len(arg.batch) : Matched(arg.batch, i)
               /\ \E i \in 1..Len(arg.batch) : ~ScalarOk(arg.batch, i)

\* C6 witness: the first item has an invalid signature, the last item has
\* mismatched versions, and the batch is InvalidVersion.
C6_Witness ==
    /\ op = "verify_batch"
    /\ Len(arg.batch) >= 2
    /\ Matched(arg.batch, 1)
    /\ ~ScalarOk(arg.batch, 1)
    /\ ~Matched(arg.batch, Len(arg.batch))
    /\ IsErr(out, "InvalidVersionError")

\* Two values of one type are the same value: a KeyPair by its to_bytes and
\* to_string, a PublicKey and a Signature by ==; and of the same version.
Same(kind, x, y) ==
    /\ x.v = y.v
    /\ IF kind = "KeyPair"
       THEN /\ KeyPair_to_bytes(x) = KeyPair_to_bytes(y)
            /\ KeyPair_to_string(x) = KeyPair_to_string(y)
       ELSE IF kind = "PublicKey" THEN PublicKey_eq(x, y)
       ELSE Signature_eq(x, y)

\* C7: from_bytes(x.to_bytes()) succeeds and is x, version and payload, for
\* every KeyPair, PublicKey and Signature x.
C7_BinaryRoundTrip ==
    (op = "roundtrip_bytes" /\ arg.garbage = << >>)
    => (out.ok /\ Same(arg.kind, out.val, arg.x))

\* C7 witness: a version-1 PublicKey went through to_bytes and from_bytes.
C7_Witness ==
    /\ op = "roundtrip_bytes"
    /\ arg.garbage = << >>
    /\ arg.kind = "PublicKey"
    /\ arg.x.v = 1
    /\ out.ok

\* C8: from_str(x.to_string()) succeeds and is x for every KeyPair,
\* PublicKey and Signature x, and so does
\* Signature::from_bs58_check(x.to_bs58_check()).
C8_TextRoundTrip ==
    op = "roundtrip_text"
    => (out.ok /\ Same(arg.kind, out.val, arg.x))

\* C8 witness: a KeyPair went through to_string and from_str.
C8_Witness ==
    /\ op = "roundtrip_text"
    /\ arg.kind = "KeyPair"
    /\ arg.via = "from_str"
    /\ out.ok

\* C9: from_bytes(x.to_bytes() ++ g) succeeds for every g and is what
\* from_bytes(x.to_bytes()) is.
C9_TrailingBytesIgnored ==
    op = "roundtrip_bytes"
    => /\ out.ok
       /\ out = FromBytesOf(arg.kind, ToBytesOf(arg.kind, arg.x))

\* C9 witness: a Signature was decoded from its bytes followed by others.
C9_Witness ==
    /\ op = "roundtrip_bytes"
    /\ arg.kind = "Signature"
    /\ Len(arg.garbage) > 0
    /\ out.ok

\* C10 as claimed: a.cmp(b) is the lexicographic order of the two 32-byte
\* payloads, whatever the versions.
C10_OrderIsPayloadOrder ==
    op = "compare" => out.val.ord = LexCmp(arg.a.pk, arg.b.pk)

\* C10 amended: a.cmp(b) is the lexicographic order of the binary forms:
\* the version first (every V0 key before every V1 key), the 32 payload
\* bytes between keys of one version; partial_cmp agrees with it.
C10_OrderIsVersionThenPayload ==
    op = "compare"
    => /\ out.val.ord = IF arg.a.v < arg.b.v THEN "Less"
                        ELSE IF arg.a.v > arg.b.v THEN "Greater"
                        ELSE LexCmp(arg.a.pk, arg.b.pk)
       /\ out.val.partial = out.val.ord

\* C10 witness: a V0 key with the greater payload compared Less than a V1
\* key.
C10_Witness ==
    /\ op = "compare"
    /\ arg.a.v = 0
    /\ arg.b.v = 1
    /\ LexCmp(arg.a.pk, arg.b.pk) = "Greater"
    /\ out.val.ord = "Less"

\* C11: an ordered set holding V0 and V1 public keys has a V0 key as its
\* minimum whatever the insertion order, every V0 key of it is before every
\* V1 key, and the minimum is the key with the least binary form to_bytes().
C11_MinimumIsVersion0 ==
    (/\ op = "ordered_set"
     /\ \E i, j \in 1..Len(arg.keys) : arg.keys[i].v = 0 /\ arg.keys[j].v = 1)
    => LET set == out.val.set
       IN  /\ out.val.first.some
           /\ out.val.first.val.v = 0
           /\ \A i \in 1..Len(arg.keys) :
                 LexCmp(PublicKey_to_bytes(out.val.first.val),
                        PublicKey_to_bytes(arg.keys[i])) \in {"Less", "Equal"}
           /\ \A i, j \in 1..Len(set) : (set[i].v = 0 /\ set[j].v = 1) => i < j

\* C11 witness: V1 keys went in first, a V0 key with a payload greater than
\* a V1 key's went in last, and the minimum is a V0 key.
C11_Witness ==
    /\ op = "ordered_set"
    /\ Len(arg.keys) >= 2
    /\ arg.keys[1].v = 1
    /\ arg.keys[Len(arg.keys)].v = 0
    /\ LexCmp(arg.keys[Len(arg.keys)].pk, arg.keys[1].pk) = "Greater"
    /\ out.val.first.some
    /\ out.val.first.val.v = 0

\* C12 as claimed: two public keys with the same 32 payload bytes are equal
\* (==), a V0 key and a V1 key included.
C12_EqualityIsPayloadOnly ==
    (op = "compare" /\ arg.a.pk = arg.b.pk) => out.val.eq

\* C12 amended: two public keys are equal (==) exactly when they have the
\* same version and the same 32 payload bytes; a V0 key and a V1 key with
\* identical bytes are not equal.
C12_EqualityIsVersionAndPayload ==
    op = "compare"
    => (out.val.eq <=> (arg.a.v = arg.b.v /\ arg.a.pk = arg.b.pk))

\* C12 witness: a V0 key and a V1 key with identical bytes compared unequal.
C12_Witness ==
    /\ op = "compare"
    /\ arg.a.v = 0
    /\ arg.b.v = 1
    /\ arg.a.pk = arg.b.pk
    /\ ~out.val.eq

\* C13: two public keys with the same 32 payload bytes write the same data
\* to the hasher whatever their versions, and that data holds the payload
\* and nothing of the version.
C13_HashIsPayloadOnly ==
    op = "hash_keys"
    => /\ arg.a.pk = arg.b.pk => out.val.a = out.val.b
       /\ out.val.a = <<PUBLIC_KEY_SIZE_BYTES>> \o arg.a.pk

\* C13 witness: a V0 key and a V1 key with identical bytes hashed alike.
C13_Witness ==
    /\ op = "hash_keys"
    /\ arg.a.v = 0
    /\ arg.b.v = 1
    /\ arg.a.pk = arg.b.pk
    /\ out.val.a = out.val.b

\* C14: KeyPair::from_str(s) is a Parsing error for every s that is empty
\* or does not start with 'S', PublicKey::from_str(s) for every s that is
\* empty or does not start with 'P'; Signature::from_str asks for no prefix
\* and decodes the whole string; a KeyPair's text is never accepted as a
\* PublicKey nor a PublicKey's text as a KeyPair.
C14_PrefixEnforced ==
    op = "parse_text"
    => LET noPrefix(c) == arg.text = << >> \/ arg.text[1] # c
       IN  /\ (arg.kind = "KeyPair" /\ noPrefix(SECRET_PREFIX))
                => IsErr(out, "ParsingError")
           /\ (arg.kind = "PublicKey" /\ noPrefix(PUBLIC_PREFIX))
                => IsErr(out, "ParsingError")
           /\ (arg.kind = "Signature" /\ arg.src = "Signature" /\ arg.form = "as_is")
                => (out.ok /\ Signature_eq(out.val, arg.x))
           /\ arg.kind = "Signature"
                => LET d == Bs58CheckDecode(arg.text)
                   IN  IF d.ok THEN out = Signature_from_bytes(d.bytes)
                       ELSE IsErr(out, "ParsingError")
           /\ (arg.form = "as_is" /\ arg.kind # arg.src
                  /\ arg.kind \in {"KeyPair", "PublicKey"}
                  /\ arg.src \in {"KeyPair", "PublicKey"})
                => IsErr(out, "ParsingError")

\* C14 witness: the text of a KeyPair was given to PublicKey::from_str and
\* refused.
C14_Witness ==
    /\ op = "parse_text"
    /\ arg.kind = "PublicKey"
    /\ arg.src = "KeyPair"
    /\ arg.form = "as_is"
    /\ arg.text[1] = SECRET_PREFIX
    /\ IsErr(out, "ParsingError")

\* The version tags of the versions that do not exist.
UnknownTags == {VarIntSerialize(v) : v \in (Versions \cup {FarVersion}) \ {0, 1}}

\* C15: KeyPair::generate(v) is InvalidVersion for v other than 0 and 1 and
\* a KeyPair of version v for v 0 or 1; from_bytes of the three types is
\* InvalidVersion whenever the data starts with the varint of another
\* version, whatever follows it, too few bytes included.
C15_UnknownVersionRejected ==
    /\ op = "generate"
        => IF arg.version \in {0, 1}
           THEN out.ok /\ KeyPair_get_version(out.val) = arg.version /\ kp = out.val
           ELSE IsErr(out, "InvalidVersionError")
    /\ (op = "decode_bytes" /\ arg.tag \in UnknownTags)
        => IsErr(out, "InvalidVersionError")

\* C15 witness: Signature::from_bytes refused data holding the tag of
\* version 2 and nothing else with InvalidVersion.
C15_Witness ==
    /\ op = "decode_bytes"
    /\ arg.kind = "Signature"
    /\ arg.data = <<2>>
    /\ IsErr(out, "InvalidVersionError")

\* C16: from_bytes on data with the tag of version 0 or 1 and fewer bytes
\* after it than the payload (32, 32, 64), and from_bytes on empty data, is
\* a Parsing error: no value, no panic.
C16_ShortInputIsParsingError ==
    (/\ op = "decode_bytes"
     /\ \/ arg.data = << >>
        \/ /\ arg.tag \in {<<0>>, <<1>>}
           /\ Len(arg.data) - Len(arg.tag) < PayloadSizeOf(arg.kind))
    => IsErr(out, "ParsingError")

\* C16 witness: KeyPair::from_bytes refused the tag of version 1 followed by
\* 31 bytes.
C16_Witness ==
    /\ op = "decode_bytes"
    /\ arg.kind = "KeyPair"
    /\ arg.tag = <<1>>
    /\ Len(arg.data) = SECRET_KEY_BYTES_SIZE
    /\ IsErr(out, "ParsingError")

\* C17: x.to_bytes() is the one byte v, x's version, then exactly the
\* payload (the 32 secret bytes of a KeyPair and no public key bytes, the 32
\* bytes of a PublicKey, the 64 of a Signature), and x.get_ser_len() is the
\* length of x.to_bytes(): 33, 33, 65.
C17_BinaryFraming ==
    op = "serialize"
    => /\ arg.x.v \in {0, 1}
       /\ out.val.bytes = <<arg.x.v>> \o PayloadOf(arg.kind, arg.x)
       /\ Len(PayloadOf(arg.kind, arg.x)) = IF arg.kind = "Signature" THEN 64 ELSE 32
       /\ out.val.ser_len = Len(out.val.bytes)
       /\ out.val.ser_len = IF arg.kind = "Signature" THEN 65 ELSE 33

\* C17 witness: a version-1 KeyPair was serialized to 33 bytes, the first
\* of them 1.
C17_Witness ==
    /\ op = "serialize"
    /\ arg.kind = "KeyPair"
    /\ arg.x.v = 1
    /\ out.val.bytes[1] = 1
    /\ Len(out.val.bytes) = 33

\* The public key of k is the one derived from the secret k holds.
Derived(k) ==
    /\ k.public = Ed_derive(k.secret)
    /\ KeyPair_get_public_key(k).pk = Ed_derive(k.secret)

\* C18: every KeyPair the caller holds or is handed by generate, clone,
\* from_bytes, from_str or structured decoding has the public key derived
\* from its secret key, never one read from the input.
C18_PublicKeyIsDerived ==
    /\ Derived(kp)
    /\ (op \in {"generate", "clone", "deserialize_keypair"} /\ out.ok)
        => Derived(out.val)
    /\ (/\ op \in {"roundtrip_bytes", "roundtrip_text", "decode_bytes", "parse_text"}
        /\ arg.kind = "KeyPair"
        /\ out.ok)
        => Derived(out.val)

\* C18 witness: a KeyPair was decoded from a structure whose public_key
\* field holds another key, and its public key is not that one.
C18_Witness ==
    /\ op = "deserialize_keypair"
    /\ arg.field = "other"
    /\ out.ok
    /\ kp = out.val
    /\ PublicKey_from_str(arg.public).ok
    /\ PublicKey_from_str(arg.public).val # KeyPair_get_public_key(kp)

\* C19: k.get_public_key() and k.sign(h) have the version k.get_version()
\* for every KeyPair k and hash h, and a value read back from its binary or
\* text form has the version it had.
C19_VersionPreserved ==
    /\ op = "derive"
        => /\ out.val.version = arg.k.v
           /\ out.val.pk.v = out.val.version
           /\ out.val.sig.ok
           /\ out.val.sig.val.v = out.val.version
    /\ op \in {"roundtrip_bytes", "roundtrip_text"}
        => (out.ok /\ out.val.v = arg.x.v)

\* C19 witness: a version-1 KeyPair gave a version-1 public key and a
\* version-1 signature.
C19_Witness ==
    /\ op = "derive"
    /\ arg.k.v = 1
    /\ out.val.version = 1
    /\ out.val.pk.v = 1
    /\ out.val.sig.val.v = 1

CountOf(fields, kinds) == Cardinality({i \in 1..Len(fields) : fields[i] \in kinds})

\* C21: structured decoding of a KeyPair, from a map or from a sequence of
\* two, takes secret_key alone: with a public_key string of any content,
\* another key's included, the result is the KeyPair of secret_key; without
\* a secret_key or without a public_key, with either twice, or with a
\* public_key that is no string, decoding fails.
C21_SecretFieldIsAuthoritative ==
    op = "deserialize_struct"
    => LET f == arg.fields
           secrets == CountOf(f, {"sk", "sk_corrupt"})
           publics == CountOf(f, {"pk_own", "pk_other", "pk_number"})
       IN  /\ (arg.form = "map" /\ Len(f) = 2 /\ CountOf(f, {"sk"}) = 1
                  /\ CountOf(f, {"pk_own", "pk_other"}) = 1)
                => (out.ok /\ out.val = arg.k /\ kp = out.val /\ Derived(out.val))
           /\ (arg.form = "seq" /\ Len(f) = 2 /\ f[1] = "sk"
                  /\ f[2] \in {"pk_own", "pk_other"})
                => (out.ok /\ out.val = arg.k /\ kp = out.val /\ Derived(out.val))
           /\ (arg.form = "map" /\ (secrets # 1 \/ publics # 1)) => ~out.ok
           /\ (arg.form = "seq" /\ Len(f) < 2) => ~out.ok
           /\ (arg.form = "map" /\ CountOf(f, {"pk_number"}) > 0) => ~out.ok
           /\ (arg.form = "seq" /\ Len(f) = 2 /\ f[2] = "pk_number") => ~out.ok

\* C21 witness: a map whose public_key is another key's text, followed by
\* the secret_key, decoded to the KeyPair of the secret_key.
C21_Witness ==
    /\ op = "deserialize_struct"
    /\ arg.form = "map"
    /\ arg.fields = <<"pk_other", "sk">>
    /\ out.ok
    /\ Str(PublicKey_to_string(KeyPair_get_public_key(out.val))) # arg.value.entries[1].val
    /\ KeyPair_to_string(out.val) = arg.value.entries[2].val.text

\* C22: serialising a KeyPair, a PublicKey or a Signature and deserialising
\* the result succeeds with an equal value (for a KeyPair: same version and
\* same public key), and serialising that value again gives the same output;
\* the form of a KeyPair has the two fields secret_key and public_key, in
\* this order, holding the two text forms; in a format that is not human
\* readable a Signature is the bytes of to_bytes() and is read by from_bytes.
C22_StructuredRoundTrip ==
    op = "roundtrip_serde"
    => /\ out.ok
       /\ out.de.val.v = arg.x.v
       /\ Same(arg.kind, out.de.val, arg.x)
       /\ out.again = Some(out.ser)
       /\ arg.kind = "KeyPair"
            => /\ PublicKey_eq(KeyPair_get_public_key(out.de.val),
                               KeyPair_get_public_key(arg.x))
               /\ out.ser.type = "map"
               /\ Len(out.ser.entries) = 2
               /\ out.ser.entries[1] = Entry("secret_key", Str(KeyPair_to_string(arg.x)))
               /\ out.ser.entries[2] =
                     Entry("public_key",
                           Str(PublicKey_to_string(KeyPair_get_public_key(arg.x))))
       /\ arg.kind = "PublicKey" => out.ser = Str(PublicKey_to_string(arg.x))
       /\ (arg.kind = "Signature" /\ arg.human_readable)
            => out.ser = Str(Signature_to_bs58_check(arg.x))
       /\ (arg.kind = "Signature" /\ ~arg.human_readable)
            => /\ out.ser = Bytes(Signature_to_bytes(arg.x))
               /\ out.de = Custom(Signature_from_bytes(Signature_to_bytes(arg.x)))

\* C22 witness: a version 1 Signature went through the byte form and came
\* back equal.
C22_Witness ==
    /\ op = "roundtrip_serde"
    /\ arg.kind = "Signature"
    /\ ~arg.human_readable
    /\ arg.x.v = 1
    /\ out.ser.type = "bytes"
    /\ out.ok
    /\ Signature_eq(out.de.val, arg.x)

\* The sequence t occurs in m as it is, from some position on.
Contains(m, t) ==
    \E i \in 1..(Len(m) - Len(t) + 1) : SubSeq(m, i, i + Len(t) - 1) = t

\* The secret-key texts given to a decoding of a KeyPair: the input of
\* from_str, the strings under secret_key of a map, the first string of a
\* sequence.
SecretTextsOf(o, a) ==
    IF o = "parse_text" THEN {a.text}
    ELSE IF a.form = "map"
    THEN {a.value.entries[i].val.text :
            i \in {j \in 1..Len(a.value.entries) :
                     /\ a.value.entries[j].key = "secret_key"
                     /\ a.value.entries[j].val.type = "str"}}
    ELSE {a.value.elems[i].text :
            i \in {j \in 1..Len(a.value.elems) : j = 1 /\ a.value.elems[j].type = "str"}}

\* C23: no error of KeyPair::from_str, of KeyPair::from_bytes or of the
\* structured decoding of a KeyPair holds the secret-key text it was given
\* or the bytes of a secret key.
C23_NoSecretInErrors ==
    /\ ((op = "parse_text" /\ arg.kind = "KeyPair") \/ op = "deserialize_struct") /\ ~out.ok
         => \A t \in SecretTextsOf(op, arg) : Len(t) > 0 => ~Contains(out.msg, t)
    /\ (op = "decode_bytes" /\ arg.kind = "KeyPair" /\ ~out.ok
           /\ Len(arg.data) >= SECRET_KEY_BYTES_SIZE)
         => ~Contains(out.msg, Take(arg.data, SECRET_KEY_BYTES_SIZE))

\* C24: for two PublicKeys of any versions, cmp is Equal exactly when they
\* are equal (==) and partial_cmp is what cmp is; the keys put in an ordered
\* set and in a hash set leave the same distinct keys in both.
C24_OrderConsistentWithEquality ==
    /\ op = "compare"
         => /\ (out.val.ord = "Equal") <=> out.val.eq
            /\ out.val.partial = out.val.ord
    /\ op = "both_sets"
         => LET ordered == out.val.ordered
            IN  /\ {ordered[i] : i \in 1..Len(ordered)} = out.val.hashed
                /\ Len(ordered) = Cardinality(out.val.hashed)
                /\ out.val.hashed = {arg.keys[i] : i \in 1..Len(arg.keys)}

\* C24 witness: a V0 key, the V1 key with the same bytes and the V0 key
\* again went in, and both sets hold two keys.
C24_Witness ==
    /\ op = "both_sets"
    /\ Len(arg.keys) = 3
    /\ arg.keys[1].v = 0
    /\ arg.keys[2].v = 1
    /\ arg.keys[1].pk = arg.keys[2].pk
    /\ arg.keys[3] = arg.keys[1]
    /\ Len(out.val.ordered) = 2
    /\ Cardinality(out.val.hashed) = 2

\* The id of the last of the first n requests the task took, the empty
\* string for none.
IdAfter(n) == IF n = 0 THEN "" ELSE taken[n]

\* The items the task has made and the client has not yet got: those in the
\* channel and the one being sent.
ItemsInFlight ==
    {chan[i] : i \in 1..Len(chan)} \cup (IF pending.some THEN {pending.val} ELSE {})

\* C25: every NewBlocksHeadersResponse carries the id of the last request
\* the task had taken from the inbound stream when it handled the header,
\* the empty string when it had taken none; a request taken later leaves
\* the responses already made as they are and gives its id to the next ones.
C25_ResponseCarriesLatestRequestId ==
    /\ \A item \in ItemsInFlight : item.ok => item.val.id = IdAfter(item.val.after)
    /\ request_id = IdAfter(Len(taken))
    /\ event = "header"
         => /\ pending.some
            /\ pending.val.ok
            /\ pending.val.val.id = IdAfter(Len(taken))
            /\ pending.val.val.after = Len(taken)

\* C25 witness: a response made before any request waits in the channel with
\* the empty id, two requests were taken since, and the response being sent
\* carries the id of the second.
C25_Witness ==
    /\ Len(taken) = 2
    /\ taken[1] # taken[2]
    /\ chan # << >>
    /\ chan[1].ok
    /\ chan[1].val.id = ""
    /\ task = "send"
    /\ pending.val.ok
    /\ pending.val.val.id = taken[2]

\* C26: the task leaves its loop in three cases only: in_stream.next() gave
\* None, it gave an error that is an IO error of kind BrokenPipe, or a send
\* on the output channel failed for want of a receiver.  An error of
\* subscriber.recv() leaves the task in its loop and sends nothing; any
\* other inbound error is sent to the client as an Err item, and the task
\* goes on once it is sent.
C26_LoopExits ==
    [][ /\ (task # "done" /\ task' = "done")
           => \/ /\ event' = "inbound_end"
                 /\ task = "select"
                 /\ in_stream.frames = << >>
                 /\ in_stream.closed
              \/ /\ event' = "broken_pipe"
                 /\ task = "select"
                 /\ in_stream.frames # << >>
                 /\ Head(in_stream.frames) = Status("BrokenPipe")
              \/ /\ event' = "send_failed"
                 /\ task = "send"
                 /\ rx = "dropped"
        /\ task = "done" => task' = "done"
        /\ event' = "recv_error"
           => /\ task = "select"
              /\ task' = "select"
              /\ chan' = chan
              /\ pending' = pending
        /\ (/\ task = "select"
            /\ in_stream' # in_stream
            /\ in_stream.frames # << >>
            /\ Head(in_stream.frames) \in {Status("OtherIo"), Status("NotIo")}
            /\ Len(in_stream'.frames) < Len(in_stream.frames))
           => /\ event' = "inbound_error"
              /\ task' = "send"
              /\ pending' = Some(Head(in_stream.frames))
        /\ (task = "send" /\ task' # "send" /\ rx = "open")
           => /\ event' = "sent"
              /\ task' = "select"
              /\ chan' = Append(chan, pending.val)
      ]_vars

\* C26 witness: an inbound error that is no broken pipe was sent to the
\* client and the task is back in its loop.
C26_Witness ==
    /\ event = "sent"
    /\ task = "select"
    /\ chan # << >>
    /\ chan[Len(chan)] = Status("OtherIo")

\* C27: once the client has closed the inbound stream the task ends, and the
\* sender of the output channel is dropped with it, whatever headers keep
\* arriving.
C27_InboundCloseTerminates == in_stream.closed ~> (task = "done")

\* C27 witness: the task ended on the end of the inbound stream with a header
\* waiting on the subscription.
C27_Witness ==
    /\ task = "done"
    /\ event = "inbound_end"
    /\ in_stream.closed
    /\ subscriber.queue # << >>

=============================================================================
